---------------------------- MODULE Spec2Model ----------------------------
(***************************************************************************)
(* Verification model of the goquant trade simulator.                      *)
(*                                                                         *)
(* Components, each with its own specification:                            *)
(*   SpecHistory - OrderbookAnalyzer.update and the rolling deques of      *)
(*                 TradeSimulator (src/core/orderbook.py,                  *)
(*                 src/core/trade_simulator.py)                            *)
(*   SpecWS      - OKXWebSocketClient (src/core/websocket_client.py)       *)
(*   SpecConc    - TradeSimulator: ingestion concurrent with estimation    *)
(*   SpecTrades  - TradeSimulator: ingestion and add_trade_result          *)
(*   SpecTrain   - online retraining of SlippageEstimator and              *)
(*                 MakerTakerPredictor (src/models/...)                    *)
(*   SpecCadence - the same estimators fed past their buffer capacity      *)
(***************************************************************************)
EXTENDS Integers, Sequences, FiniteSets, TLC

VARIABLES
    \* ---- OrderbookAnalyzer (orderbook.py:66-71)
    price_history,        \* analyzer.price_history
    timestamp_history,    \* analyzer.timestamp_history
    spread_history,       \* analyzer.spread_history
    volume_history,       \* analyzer.volume_history
    an_price_log,         \* history variable: every mid price ever appended
    an_spread_log,        \* history variable: every spread ever appended
    an_volume_log,        \* history variable: every volume ever appended
    \* ---- TradeSimulator market state (trade_simulator.py:133-148)
    current_orderbook,    \* simulator.current_orderbook (None or a snapshot)
    sim_price_history,    \* simulator.price_history  (deque, maxlen)
    sim_spread_history,   \* simulator.spread_history (deque, maxlen)
    sim_volume_history,   \* simulator.volume_history (deque, maxlen)
    sim_price_log,        \* history variable: every mid price ever appended
    sim_spread_log,       \* history variable: every spread ever appended
    sim_volume_log,       \* history variable: every volume ever appended
    upd_pc,               \* position of the thread running _handle_orderbook_update
    upd_ob,               \* its argument
    upd_gen,              \* history variable: number of the ingestion step in progress / last started
    ob_gen,               \* history variable: ingestion step that wrote current_orderbook
    hist_gen,             \* history variable: ingestion step of the newest volume_history entry
    sim_error_calls,      \* number of times the simulator's error callback was invoked
    \* ---- OKXWebSocketClient (websocket_client.py:43-57)
    _websocket,           \* "None", "open" or "closed" (the object is kept after a close)
    _is_connected,
    _is_running,
    _reconnect_count,
    _message_count,
    ws_pc,                \* await point of the start_streaming task
    connect_ctx,          \* which call site awaits connect()
    exit_reason,          \* how start_streaming last ended
    fatal_reported,       \* "Max reconnection attempts reached" was logged
    delays,               \* history variable: sleeps of _reconnect since the last successful connect
    last_sleep,           \* history variable: duration of the client's latest sleep (0: none yet)
    received,             \* history variable: inbound messages handled while running
    ob_received,          \* history variable: those that decode and carry bids and asks
    processor_updates,    \* history variable: snapshots passed to the orderbook processor
    callback_deliveries,  \* history variable: invocations of the orderbook callback
    last_event,           \* history variable: what the latest client step was
    stop_in_backoff,      \* history variable: stop_streaming ran during a backoff sleep, no start since
    \* ---- TradeSimulator.estimate_trade_cost running in its own thread
    est_pc,               \* position of the thread running estimate_trade_cost
    est_ob,               \* its local `orderbook` (line 333)
    est_hist,             \* its local `historical_data` (line 349)
    est_ob_gen,           \* history variable: ingestion step that wrote the snapshot it read
    est_hist_gen,         \* history variable: ingestion step of the newest history entry it read
    est_calls,            \* history variable: number of estimate_trade_cost calls started
    est_result,           \* what the latest call returned
    est_params,           \* estimate_trade_cost local: trade_params
    est_price,            \* estimate_trade_cost local: execution_price
    est_predicts,         \* history variable: the models whose predict method the latest call invoked
    est_estimate,         \* estimate_trade_cost local: the TradeCostEstimate built at lines 407-422
    est_callback_calls,   \* history variable: invocations of _cost_estimate_callback by the latest call
    \* ---- TradeSimulator.add_trade_result and the adaptive execution model
    trade_count,          \* simulator.trade_count
    trade_history_len,    \* len(simulator.trade_history)
    _trades_since_retrain,\* AdaptiveSlippageEstimator._trades_since_retrain
    _recent_trades_len,   \* len(AdaptiveAlmgrenChriss._recent_trades)
    adapt_calls,          \* history variable: calls of AdaptiveAlmgrenChriss._adapt_parameters
    trade_applied,        \* history variable: model updates the latest add_trade_result applied
    trade_raised,         \* history variable: the update in which the latest add_trade_result raised
    \* ---- SlippageEstimator / MakerTakerPredictor, one entry per estimator
    history_len,          \* len(self._features_history)
    _features_history,    \* self._features_history: the entries, numbered as they were added
    _outcomes_history,    \* self._slippage_history / self._labels_history, numbered alike
    total_added,          \* history variable: observations ever passed to add_observation
    model,                \* the fitted objects: scaler, point estimator, quantile regressors
    is_trained,           \* self.is_trained
    model_before,         \* history variable: model and is_trained before the latest training attempt
    fits,                 \* history variable: number of training attempts so far
    train_successes,      \* history variable: number of training attempts that returned
    last_add,             \* history variable: what the latest add_observation call did
    last_trade_result,    \* history variable: the retrains of the latest slippage add_trade_result
    \* ---- AdaptiveAlmgrenChriss (almgren_chriss.py:272-277); _recent_trades_len and
    \* adapt_calls above belong to it too
    current_params,       \* self.current_params, the object self.model.params refers to as well
    adaptation_rate,      \* self.adaptation_rate, in tenths
    initial_params,       \* history variable: the parameters the instance was constructed with
    outcomes_added,       \* history variable: number of update_with_trade calls
    last_update,          \* history variable: what the latest update_with_trade call did
    last_construct,       \* history variable: the latest AlmgrenChrissParams(...) call
    strategy,             \* history variable: the latest calculate_optimal_strategy call
    \* ---- FeeCalculator (fee_calculator.py:77-80)
    fee_structure,        \* self.fee_structure
    daily_volume,         \* self.daily_volume, in units of 100,000
    fee_rates,            \* history variable: the latest get_current_fee_rates call
    \* ---- direct calls of train_models / train_model and of the predict methods
    train_call,           \* history variable: the latest call, with the estimator's state before it
    predict_call,         \* history variable: the latest predict call
    \* ---- OrderbookProcessor.process_message and calculate_impact_price
    proc_result,          \* history variable: the latest process_message call and its result
    impact_call,          \* history variable: the latest calculate_impact_price call
    \* ---- main.py: the /api/estimate endpoint and its performance tracker
    api_trade_count,      \* performance_tracker.trade_count
    api_response,         \* history variable: the latest request with the response returned
    \* ---- TradeSimulator.get_statistics
    stats_result          \* history variable: how the latest get_statistics call ended

histVars == <<price_history, timestamp_history, spread_history, volume_history,
              an_price_log, an_spread_log, an_volume_log>>
simMarketVars == <<current_orderbook, sim_price_history, sim_spread_history,
                   sim_volume_history, sim_price_log, sim_spread_log, sim_volume_log,
                   upd_pc, upd_ob, upd_gen, ob_gen, hist_gen, sim_error_calls>>

wsVars == <<_websocket, _is_connected, _is_running, _reconnect_count, _message_count,
            ws_pc, connect_ctx, exit_reason, fatal_reported, delays, last_sleep,
            received, ob_received, processor_updates,
            callback_deliveries, last_event, stop_in_backoff>>

estVars == <<est_pc, est_ob, est_hist, est_ob_gen, est_hist_gen,
             est_calls, est_result, est_params, est_price, est_predicts,
             est_estimate, est_callback_calls>>

tradeVars == <<trade_count, trade_history_len, _trades_since_retrain,
               _recent_trades_len, adapt_calls, trade_applied, trade_raised>>

modelVars == <<history_len, _features_history, _outcomes_history, total_added, model,
               is_trained, model_before, fits, train_successes, last_add,
               last_trade_result>>

almgrenVars == <<current_params, adaptation_rate, initial_params, outcomes_added,
                 last_update, last_construct, strategy>>

feeVars == <<fee_structure, daily_volume, fee_rates>>

callVars == <<train_call, predict_call>>

procVars == <<proc_result, impact_call>>

apiVars == <<api_trade_count, api_response>>

statsVars == <<stats_result>>

serviceVars == <<feeVars, callVars, procVars, apiVars, statsVars>>

vars == <<histVars, simMarketVars, wsVars, estVars, tradeVars, modelVars, almgrenVars,
          serviceVars>>

\* what the actions of one component leave unchanged
exceptHist == <<simMarketVars, wsVars, estVars, tradeVars, modelVars, almgrenVars,
    serviceVars>>
exceptSimMarket == <<histVars, wsVars, estVars, tradeVars, modelVars, almgrenVars,
    serviceVars>>
exceptWs == <<histVars, simMarketVars, estVars, tradeVars, modelVars, almgrenVars,
    serviceVars>>
exceptModel == <<histVars, simMarketVars, wsVars, estVars, tradeVars, almgrenVars,
    serviceVars>>
exceptAlmgren == <<histVars, simMarketVars, wsVars, estVars, modelVars, serviceVars>>
exceptService == <<histVars, simMarketVars, wsVars, estVars, tradeVars, modelVars,
                   almgrenVars>>

\* Python's None where a snapshot is expected
None == [none |-> TRUE]

-----------------------------------------------------------------------------
(* Bounds of the model *)

\* OrderbookAnalyzer(max_history=...) as configured in the model
max_history == 2
\* SimulationConfig.max_price_history as configured in the model
max_price_history == 2
\* number of snapshots fed to the analyzer / to the simulator in one run
MaxUpdates == 4
\* number of inbound messages handled by the websocket client in one run
MaxMessages == 3
\* number of estimate_trade_cost calls in one run
MaxEstimates == 2
\* number of add_trade_result calls in one run
MaxTrades == 3
\* number of add_observation calls in one run of the training specification
MaxObservations == 250
\* number of add_trade_result calls on the adaptive slippage estimator
MaxAdaptiveTrades == 220
\* number of add_observation calls in one run of the cadence specification
MaxCadenceObservations == 10002
MaxCadenceOutcomes == 120
MaxOutcomes == 30
MaxEstimateUpdates == 2
MaxEstimateCalls == 1
MaxDailyVolume == 120
MaxTrainCalls == 1
MaxProcessed == 2
MaxQuantity == 6
MaxRequests == 2
MaxReadOnlyUpdates == 1

-----------------------------------------------------------------------------
(* Generic helpers *)

Min(a, b) == IF a <= b THEN a ELSE b

RECURSIVE SumQty(_)
\* sum(level.quantity for level in levels)
SumQty(levels) ==
    IF levels = <<>> THEN 0 ELSE Head(levels)[2] + SumQty(Tail(levels))

\* levels[:n]
Take(s, n) == SubSeq(s, 1, Min(n, Len(s)))

\* the last n elements of s (all of s when it is shorter)
LastN(s, n) == IF Len(s) <= n THEN s ELSE SubSeq(s, Len(s) - n + 1, Len(s))

-----------------------------------------------------------------------------
(* Orderbook snapshots: a level is <<price, quantity>> *)

Snapshots ==
    { [timestamp |-> [kind |-> "epoch_ms", value |-> 1],
       bids |-> << <<98, 1>>, <<96, 2>> >>, asks |-> << <<102, 2>> >>],
      [timestamp |-> [kind |-> "iso8601", value |-> 2],
       bids |-> << <<100, 2>> >>, asks |-> << <<104, 1>> >>],
      [timestamp |-> [kind |-> "epoch_ms", value |-> 3],
       bids |-> << <<99, 3>> >>, asks |-> << >>] }

\* OrderbookSnapshot.best_bid / best_ask (read only when the side is not empty;
\* the properties return None otherwise)
best_bid(ob) == ob.bids[1][1]
best_ask(ob) == ob.asks[1][1]

\* orderbook.mid_price is not None / orderbook.spread is not None
HasMid(ob) == ob.bids # <<>> /\ ob.asks # <<>>

\* OrderbookSnapshot.mid_price (prices of the model have an even sum)
mid_price(ob) == (best_bid(ob) + best_ask(ob)) \div 2

\* OrderbookSnapshot.spread
spread(ob) == best_ask(ob) - best_bid(ob)

-----------------------------------------------------------------------------
(* OrderbookAnalyzer.update *)

\* list.pop(0) with the oldest entry dropped when the list outgrew its limit
PopOldestMutant(list, limit) ==
    IF Len(list) > limit THEN SubSeq(list, 1, Len(list) - 1) ELSE list

PopOldest(list, limit) ==
    IF Len(list) > limit THEN Tail(list) ELSE list

\* bid_volume + ask_volume over the top five levels
TopVolume(ob) == SumQty(Take(ob.bids, 5)) + SumQty(Take(ob.asks, 5))

\* the body of update(orderbook)
AnalyzerApply(ob) ==
    LET hasMid    == HasMid(ob)
        hasSpread == HasMid(ob)
        p1 == IF hasMid THEN Append(price_history, mid_price(ob)) ELSE price_history
        t1 == IF hasMid THEN Append(timestamp_history, ob.timestamp)
                        ELSE timestamp_history
        s1 == IF hasSpread THEN Append(spread_history, spread(ob)) ELSE spread_history
        v1 == Append(volume_history, TopVolume(ob))
    IN /\ price_history' = PopOldest(p1, max_history)
       /\ timestamp_history' =
             IF Len(p1) > max_history THEN Tail(t1) ELSE t1
       /\ spread_history' = PopOldest(s1, max_history)
       /\ volume_history' = PopOldest(v1, max_history)
       /\ an_price_log' = IF hasMid THEN Append(an_price_log, mid_price(ob))
                                    ELSE an_price_log
       /\ an_spread_log' = IF hasSpread THEN Append(an_spread_log, spread(ob))
                                        ELSE an_spread_log
       /\ an_volume_log' = Append(an_volume_log, TopVolume(ob))

AnalyzerUpdate(ob) ==
    /\ Len(an_volume_log) < MaxUpdates
    /\ AnalyzerApply(ob)
    /\ UNCHANGED exceptHist

AnalyzerUpdateAny == \E ob \in Snapshots : AnalyzerUpdate(ob)

-----------------------------------------------------------------------------
(* OrderbookProcessor.process_message *)

\* a field of a raw level: a number or a numeric string (float() converts
\* it to `value`), or a string float() raises ValueError on
Num(n) == [numeric |-> TRUE, value |-> n]
Text == [numeric |-> FALSE, value |-> 0]

\* the value under "bids" / "asks": a list of raw levels, a number, a
\* string, or no such key
Levels(items) == [kind |-> "list", items |-> items]
NotLevels(kind) == [kind |-> kind, items |-> <<>>]

BidInputs ==
    { Levels(<< <<Num(100), Num(1)>>, <<Num(98), Num(2)>> >>),
      Levels(<< <<Num(98), Num(2)>>, <<Num(100), Num(1)>> >>),
      Levels(<< <<Num(100), Num(1)>>, <<Num(98), Num(2)>>, <<Num(100), Num(3)>> >>),
      Levels(<< <<Num(100), Num(1)>>, <<Text, Num(1)>> >>),
      Levels(<< <<Num(100), Num(1)>>, <<Num(98), Text>> >>),
      Levels(<< <<Num(98)>>, <<Num(100), Num(1)>> >>),
      Levels(<< <<Num(96), Num(4), Num(7)>> >>),
      Levels(<< >>),
      NotLevels("number"),
      NotLevels("string"),
      NotLevels("missing") }

AskInputs ==
    { Levels(<< <<Num(102), Num(2)>> >>),
      Levels(<< <<Num(104), Num(1)>>, <<Num(102), Num(2)>>, <<Num(104), Num(3)>> >>),
      Levels(<< <<Num(102), Num(2)>>, <<Num(106), Text>> >>),
      Levels(<< <<Num(102), Num(2)>>, << >> >>),
      NotLevels("number") }

\* the value under "timestamp": no such key, an ISO-8601 string, a number
\* of milliseconds since the epoch, or a string that is not a date
TimestampInputs ==
    { [kind |-> "missing", value |-> 0], [kind |-> "iso8601", value |-> 2],
      [kind |-> "epoch_ms", value |-> 1], [kind |-> "text", value |-> 0] }

BaseTimestamp == [kind |-> "iso8601", value |-> 2]
BaseBids == Levels(<< <<Num(100), Num(1)>>, <<Num(98), Num(2)>> >>)
BaseAsks == Levels(<< <<Num(102), Num(2)>> >>)

ObjectMessage(timestamp, bids, asks) ==
    [json |-> "object", timestamp |-> timestamp, bids |-> bids, asks |-> asks]

\* text that is not JSON, or JSON whose top level is not an object
OtherMessage(json) ==
    [json |-> json, timestamp |-> BaseTimestamp, bids |-> BaseBids, asks |-> BaseAsks]

\* the messages: each part varied on its own, and levels that are not
\* numeric under a timestamp of each kind
Messages ==
    { OtherMessage(j) : j \in {"invalid", "array", "null"} }
    \cup { ObjectMessage(t, BaseBids, BaseAsks) : t \in TimestampInputs }
    \cup { ObjectMessage(BaseTimestamp, b, BaseAsks) : b \in BidInputs }
    \cup { ObjectMessage(BaseTimestamp, BaseBids, a) : a \in AskInputs }
    \cup { ObjectMessage(t, Levels(<< <<Num(100), Num(1)>>, <<Text, Num(1)>> >>),
                         BaseAsks) : t \in TimestampInputs }

\* `if len(bid_data) >= 2:`
WellFormedLength(level) == Len(level) >= 2

\* float(bid_data[0]) and float(bid_data[1]) both return
Numeric(level) == level[1].numeric /\ level[2].numeric

RECURSIVE ParseLevels(_)
\* the loop of lines 191-195 over a list: the levels appended, or the
\* ValueError of the first float() that raises
ParseLevels(items) ==
    IF items = << >> THEN [raised |-> FALSE, levels |-> << >>]
    ELSE LET level == Head(items)
             rest == ParseLevels(Tail(items))
         IN IF ~WellFormedLength(level) THEN rest
            ELSE IF ~Numeric(level) THEN [raised |-> TRUE, levels |-> << >>]
            ELSE IF rest.raised THEN rest
            ELSE [raised |-> FALSE,
                  levels |-> << <<level[1].value, level[2].value>> >> \o rest.levels]

\* the loop over data.get("bids", []): iterating a number raises TypeError,
\* the characters of a string have length 1 and are skipped
ParseSide(raw) ==
    CASE raw.kind = "list" -> ParseLevels(raw.items)
      [] raw.kind = "number" -> [raised |-> TRUE, levels |-> << >>]
      [] raw.kind = "string" -> [raised |-> FALSE, levels |-> << >>]
      [] raw.kind = "missing" -> [raised |-> FALSE, levels |-> << >>]

RECURSIVE InsertLevel(_, _, _)
\* the place a stable sort gives `level` among levels that came before it
InsertLevel(sorted, level, reverse) ==
    IF sorted = << >> THEN << level >>
    ELSE IF (IF reverse THEN Head(sorted)[1] >= level[1]
                        ELSE Head(sorted)[1] <= level[1])
         THEN << Head(sorted) >> \o InsertLevel(Tail(sorted), level, reverse)
         ELSE << level >> \o sorted

RECURSIVE SortLevels(_, _)
\* list.sort(key=lambda x: x.price, reverse=reverse): levels of the same
\* price stay, in the order they came
SortLevels(levels, reverse) ==
    IF levels = << >> THEN << >>
    ELSE InsertLevel(SortLevels(SubSeq(levels, 1, Len(levels) - 1), reverse),
                     levels[Len(levels)], reverse)

Absent == [outcome |-> "absent", snapshot |-> None]
\* an exception the except clause of line 222 does not name
Propagated == [outcome |-> "raised", snapshot |-> None]

\* process_message(message) up to the construction of the snapshot
ProcessOutcome(msg) ==
    IF msg.json = "invalid" THEN Absent                 \* json.JSONDecodeError
    ELSE IF msg.json # "object" THEN Propagated         \* data.get: AttributeError
    ELSE IF msg.timestamp.kind = "epoch_ms" THEN Propagated  \* int.replace: AttributeError
    ELSE IF msg.timestamp.kind = "text" THEN Absent     \* fromisoformat: ValueError
    ELSE LET bids == ParseSide(msg.bids)
             asks == ParseSide(msg.asks)
         IN IF bids.raised \/ asks.raised THEN Absent   \* ValueError, TypeError
            ELSE [outcome |-> "snapshot",
                  snapshot |->
                     [timestamp |-> IF msg.timestamp.kind = "missing"
                                    THEN [kind |-> "now", value |-> 0]
                                    ELSE msg.timestamp,
                      bids |-> SortLevels(bids.levels, TRUE),
                      asks |-> SortLevels(asks.levels, FALSE)]]

\* the rolling histories of the processor's analyzer
AnalyzerHistories ==
    [price_history |-> price_history, timestamp_history |-> timestamp_history,
     spread_history |-> spread_history, volume_history |-> volume_history]

ProcessMessage(msg) ==
    /\ Len(an_volume_log) < MaxProcessed
    /\ LET result == ProcessOutcome(msg)
       IN /\ proc_result' = [message |-> msg, outcome |-> result.outcome,
                             snapshot |-> result.snapshot,
                             before |-> AnalyzerHistories]
          /\ IF result.outcome = "snapshot"
             THEN AnalyzerApply(result.snapshot)
             ELSE UNCHANGED histVars
    /\ UNCHANGED <<feeVars, callVars, apiVars, statsVars, impact_call>>
    /\ UNCHANGED <<simMarketVars, wsVars, estVars, tradeVars, modelVars, almgrenVars>>

ProcessMessageAny == \E msg \in Messages : ProcessMessage(msg)

-----------------------------------------------------------------------------
(* OrderbookAnalyzer.calculate_impact_price: a price is the pair of the
   total cost and the quantity it is divided by *)

RECURSIVE WalkLevels(_, _, _)
\* the loop of lines 140-146
WalkLevels(levels, remaining_qty, total_cost) ==
    IF levels = << >> \/ remaining_qty <= 0
    THEN [remaining_qty |-> remaining_qty, total_cost |-> total_cost]
    ELSE LET qty_at_level == Min(remaining_qty, Head(levels)[2])
         IN WalkLevels(Tail(levels), remaining_qty - qty_at_level,
                       total_cost + qty_at_level * Head(levels)[1])

\* the walk with its result returned whatever is left to fill
ImpactPriceWithoutLiquidityCheck(levels, quantity) ==
    IF levels = << >> THEN None
    ELSE [total_cost |-> WalkLevels(levels, quantity, 0).total_cost,
          quantity |-> quantity]

\* lines 134-151 on the levels of the side chosen
ImpactPrice(levels, quantity) ==
    IF levels = << >> THEN None
    ELSE LET walked == WalkLevels(levels, quantity, 0)
         IN IF walked.remaining_qty > 0 THEN None
            ELSE [total_cost |-> walked.total_cost, quantity |-> quantity]

\* lines 129-132
SideLevels(orderbook, side) ==
    IF side = "buy" THEN orderbook.asks ELSE orderbook.bids

\* requested quantities
Quantities == 1..MaxQuantity

\* calculate_impact_price(orderbook, quantity, side) on the snapshot
\* process_message returned last
CalculateImpactPrice(quantity, side) ==
    /\ proc_result # None
    /\ proc_result.outcome = "snapshot"
    /\ impact_call' = [quantity |-> quantity, side |-> side,
                       levels |-> SideLevels(proc_result.snapshot, side),
                       result |-> ImpactPrice(SideLevels(proc_result.snapshot, side),
                                              quantity)]
    /\ UNCHANGED <<feeVars, callVars, apiVars, statsVars, proc_result>>
    /\ UNCHANGED exceptService

CalculateImpactPriceAny ==
    \E quantity \in Quantities, side \in {"buy", "sell"} :
        CalculateImpactPrice(quantity, side)

-----------------------------------------------------------------------------
(* TradeSimulator._handle_orderbook_update, statement by statement: the     *)
(* method takes no lock, so another thread can run between its statements.  *)

\* collections.deque(maxlen=n).append(x)
DequeAppend(d, x, maxlen) ==
    IF maxlen = 0 THEN <<>>
    ELSE IF Len(d) >= maxlen THEN Append(Tail(d), x)
    ELSE Append(d, x)

\* bid_price, ask_price, mid_price, spread of lines 264-267 (0 for a missing side)
SimBid(ob) == IF ob.bids # <<>> THEN ob.bids[1][1] ELSE 0
SimAsk(ob) == IF ob.asks # <<>> THEN ob.asks[1][1] ELSE 0
SimMid(ob) == IF SimBid(ob) # 0 /\ SimAsk(ob) # 0
              THEN (SimBid(ob) + SimAsk(ob)) \div 2 ELSE 0
SimSpread(ob) == SimAsk(ob) - SimBid(ob)

\* the methods the PerformanceMonitor class defines
PerformanceMonitorMethods ==
    {"start_processing_timer", "end_processing_timer", "start_ui_timer",
     "end_ui_timer", "record_network_latency", "record_tick", "get_metrics",
     "get_detailed_stats"}

\* line 261: self.current_orderbook = orderbook
UpdSetOrderbook(ob) ==
    /\ upd_pc = "idle"
    /\ upd_gen < MaxUpdates
    /\ upd_gen' = upd_gen + 1
    /\ upd_ob' = ob
    /\ current_orderbook' = ob
    /\ ob_gen' = upd_gen + 1
    /\ upd_pc' = "price"
    /\ UNCHANGED <<sim_price_history, sim_spread_history, sim_volume_history,
                   sim_price_log, sim_spread_log, sim_volume_log, hist_gen,
                   sim_error_calls>>
    /\ UNCHANGED exceptSimMarket

UpdSetOrderbookAny == \E ob \in Snapshots : UpdSetOrderbook(ob)

\* lines 264-272: price_history / spread_history
UpdAppendPrice ==
    /\ upd_pc = "price"
    /\ IF SimMid(upd_ob) > 0
       THEN /\ sim_price_history' =
                  DequeAppend(sim_price_history, SimMid(upd_ob), max_price_history)
            /\ sim_spread_history' =
                  DequeAppend(sim_spread_history, SimSpread(upd_ob), max_price_history)
            /\ sim_price_log' = Append(sim_price_log, SimMid(upd_ob))
            /\ sim_spread_log' = Append(sim_spread_log, SimSpread(upd_ob))
       ELSE UNCHANGED <<sim_price_history, sim_spread_history, sim_price_log,
                        sim_spread_log>>
    /\ upd_pc' = "volume"
    /\ UNCHANGED <<current_orderbook, sim_volume_history, sim_volume_log, upd_ob,
                   upd_gen, ob_gen, hist_gen, sim_error_calls>>
    /\ UNCHANGED exceptSimMarket

\* lines 275-276: volume_history
UpdAppendVolume ==
    /\ upd_pc = "volume"
    /\ sim_volume_history' =
          DequeAppend(sim_volume_history, TopVolume(upd_ob), max_price_history)
    /\ sim_volume_log' = Append(sim_volume_log, TopVolume(upd_ob))
    /\ hist_gen' = upd_gen
    /\ upd_pc' = "finish"
    /\ UNCHANGED <<current_orderbook, sim_price_history, sim_spread_history,
                   sim_price_log, sim_spread_log, upd_ob, upd_gen, ob_gen,
                   sim_error_calls>>
    /\ UNCHANGED exceptSimMarket

\* lines 279-294: _update_models() changes nothing; track_processing_latency is
\* no method of PerformanceMonitor, so the call raises and the handler's
\* except clause invokes the error callback
UpdFinish ==
    /\ upd_pc = "finish"
    /\ sim_error_calls' =
          IF "track_processing_latency" \in PerformanceMonitorMethods
          THEN sim_error_calls ELSE sim_error_calls + 1
    /\ upd_pc' = "idle"
    /\ UNCHANGED <<current_orderbook, sim_price_history, sim_spread_history,
                   sim_volume_history, sim_price_log, sim_spread_log, sim_volume_log,
                   upd_ob, upd_gen, ob_gen, hist_gen>>
    /\ UNCHANGED exceptSimMarket

-----------------------------------------------------------------------------
(* OKXWebSocketClient: the start_streaming task between its await points, *)
(* and stop_streaming called from another task                             *)

\* WebSocketConfig.reconnect_delay
reconnect_delay == 5
\* WebSocketConfig.max_reconnect_attempts
max_reconnect_attempts == 10
\* the cap in _reconnect's min(..., 60)
BackoffCap == 60

RECURSIVE Pow2(_)
Pow2(n) == IF n <= 0 THEN 1 ELSE 2 * Pow2(n - 1)

\* a delay that doubles without the cap
ReconnectDelayUncapped(count) == reconnect_delay * Pow2(count - 1)

\* delay = min(reconnect_delay * 2 ** (reconnect_count - 1), 60)
ReconnectDelay(count) == Min(reconnect_delay * Pow2(count - 1), BackoffCap)

\* the is_connected property
IsConnected == _is_connected /\ _websocket # "None"

\* fields of OrderbookSnapshot that have no default value
OrderbookSnapshotRequired == {"timestamp", "exchange", "symbol"}
\* keyword arguments _handle_message passes to OrderbookSnapshot(...)
HandleMessageSnapshotArgs == {"symbol", "timestamp", "bids", "asks"}
\* the methods the OrderbookProcessor class defines
OrderbookProcessorMethods == {"process_message", "get_market_metrics"}

MessageKinds == {"orderbook", "other_json", "invalid_json"}

\* _handle_message(message): what it did, given the kind of message and whether
\* the orderbook callback / the error callback raise when invoked
HandleMessage(kind, ob_raises, err_raises) ==
    LET latencyOk == "track_network_latency" \in PerformanceMonitorMethods
        decoded   == latencyOk /\ kind # "invalid_json"
        isBook    == decoded /\ kind = "orderbook"
        built     == isBook /\ OrderbookSnapshotRequired \subseteq HandleMessageSnapshotArgs
        processed == built /\ "process_snapshot" \in OrderbookProcessorMethods
        tracked   == processed /\ "track_processing_latency" \in PerformanceMonitorMethods
        delivered == tracked
        exception == \/ ~latencyOk
                     \/ isBook /\ ~tracked
                     \/ delivered /\ ob_raises
    IN [counted   |-> decoded,
        processed |-> processed,
        delivered |-> delivered,
        errback   |-> exception,
        cb_raised |-> (delivered /\ ob_raises) \/ (exception /\ err_raises),
        escaped   |-> exception /\ err_raises]

\* while self._is_running: ... at the top of the loop
LoopTop(running, connected) ==
    IF ~running
    THEN /\ ws_pc' = "idle"
         /\ exit_reason' = "stopped"
         /\ UNCHANGED connect_ctx
    ELSE IF connected
    THEN /\ ws_pc' = "reading"
         /\ UNCHANGED <<connect_ctx, exit_reason>>
    ELSE /\ ws_pc' = "connecting"
         /\ connect_ctx' = "start"
         /\ UNCHANGED exit_reason

\* _reconnect() up to its sleep (lines 180-188); a False result makes every
\* caller break out of the loop
BeginReconnect(ctx) ==
    IF _reconnect_count >= max_reconnect_attempts
    THEN /\ fatal_reported' = TRUE
         /\ ws_pc' = "idle"
         /\ exit_reason' = "gave_up"
         /\ UNCHANGED <<_reconnect_count, delays, last_sleep, connect_ctx>>
    ELSE /\ _reconnect_count' = _reconnect_count + 1
         /\ delays' = Append(delays, ReconnectDelay(_reconnect_count + 1))
         /\ last_sleep' = ReconnectDelay(_reconnect_count + 1)
         /\ ws_pc' = "backoff"
         /\ connect_ctx' = ctx
         /\ UNCHANGED <<fatal_reported, exit_reason>>

\* except Exception (lines 230-238), after self._is_connected = False
GenericHandler(err_raises) ==
    IF err_raises
    THEN /\ ws_pc' = "idle"
         /\ exit_reason' = "raised"
         /\ UNCHANGED last_sleep
    ELSE IF _is_running
    THEN /\ ws_pc' = "error_sleep"
         /\ last_sleep' = reconnect_delay
         /\ UNCHANGED exit_reason
    ELSE /\ ws_pc' = "idle"
         /\ exit_reason' = "stopped"
         /\ UNCHANGED last_sleep

wsCounters == <<received, ob_received, _message_count, processor_updates,
                callback_deliveries>>

\* start_streaming() up to its first await
StartStreaming ==
    /\ ws_pc = "idle"
    /\ _is_running' = TRUE
    /\ exit_reason' = "none"
    /\ IF IsConnected
       THEN ws_pc' = "reading" /\ UNCHANGED connect_ctx
       ELSE ws_pc' = "connecting" /\ connect_ctx' = "start"
    /\ stop_in_backoff' = FALSE
    /\ last_event' = "start"
    /\ UNCHANGED <<_websocket, _is_connected, _reconnect_count, fatal_reported,
                   delays, last_sleep, wsCounters>>
    /\ UNCHANGED exceptWs

\* stop_streaming(): self._is_running = False; await self.disconnect()
StopStreaming ==
    /\ _is_running' = FALSE
    /\ _websocket' = "None"
    /\ _is_connected' = FALSE
    /\ stop_in_backoff' = (stop_in_backoff \/ ws_pc = "backoff")
    /\ last_event' = "stop"
    /\ UNCHANGED <<_reconnect_count, ws_pc, connect_ctx, exit_reason, fatal_reported,
                   delays, last_sleep, wsCounters>>
    /\ UNCHANGED exceptWs

\* connect() returns True (lines 93-107), and what its caller does next
ConnectSucceeds ==
    /\ ws_pc = "connecting"
    /\ _websocket' = "open"
    /\ _is_connected' = TRUE
    /\ _reconnect_count' = 0
    /\ delays' = <<>>
    /\ IF connect_ctx = "start"
       THEN ws_pc' = "reading" /\ UNCHANGED <<connect_ctx, exit_reason>>
       ELSE LoopTop(_is_running, TRUE)
    /\ last_event' = "connect_ok"
    /\ UNCHANGED <<_is_running, fatal_reported, last_sleep, wsCounters, stop_in_backoff>>
    /\ UNCHANGED exceptWs

\* connect() fails (lines 109-116): the error callback is invoked and may raise
ConnectFails(err_raises, err_raises_again) ==
    /\ ws_pc = "connecting"
    /\ _is_connected' = FALSE
    /\ IF err_raises
       THEN IF connect_ctx = "reconnect_handler"
            THEN /\ ws_pc' = "idle"
                 /\ exit_reason' = "raised"
                 /\ UNCHANGED <<last_sleep, _reconnect_count, delays, fatal_reported,
                                connect_ctx>>
            ELSE /\ GenericHandler(err_raises_again)
                 /\ UNCHANGED <<_reconnect_count, delays, fatal_reported, connect_ctx>>
       ELSE IF connect_ctx = "start"
            THEN BeginReconnect("reconnect_try")
            ELSE /\ ws_pc' = "idle"
                 /\ exit_reason' = "gave_up"
                 /\ UNCHANGED <<last_sleep, _reconnect_count, delays, fatal_reported,
                                connect_ctx>>
    /\ last_event' = "connect_fail"
    /\ UNCHANGED <<_websocket, _is_running, wsCounters, stop_in_backoff>>
    /\ UNCHANGED exceptWs

ConnectFailsAny == \E e1, e2 \in BOOLEAN : ConnectFails(e1, e2)

\* the sleep of _reconnect ends: return await self.connect()
BackoffWake ==
    /\ ws_pc = "backoff"
    /\ ws_pc' = "connecting"
    /\ last_event' = "wake"
    /\ UNCHANGED <<_websocket, _is_connected, _is_running, _reconnect_count,
                   connect_ctx, exit_reason, fatal_reported, delays, last_sleep,
                   wsCounters, stop_in_backoff>>
    /\ UNCHANGED exceptWs

\* the sleep of line 238 ends: back to the top of the loop
ErrorSleepWake ==
    /\ ws_pc = "error_sleep"
    /\ LoopTop(_is_running, IsConnected)
    /\ last_event' = "wake"
    /\ UNCHANGED <<_websocket, _is_connected, _is_running, _reconnect_count,
                   fatal_reported, delays, last_sleep, wsCounters, stop_in_backoff>>
    /\ UNCHANGED exceptWs

\* a message arrives while running (lines 205-209 and _handle_message)
ReceiveMessage(kind, ob_raises, err_raises, err_raises_again) ==
    /\ ws_pc = "reading"
    /\ _websocket = "open"
    /\ _is_running
    /\ received < MaxMessages
    /\ LET r == HandleMessage(kind, ob_raises, err_raises)
       IN /\ received' = received + 1
          /\ ob_received' = IF kind = "orderbook" THEN ob_received + 1 ELSE ob_received
          /\ _message_count' = IF r.counted THEN _message_count + 1 ELSE _message_count
          /\ processor_updates' =
                IF r.processed THEN processor_updates + 1 ELSE processor_updates
          /\ callback_deliveries' =
                IF r.delivered THEN callback_deliveries + 1 ELSE callback_deliveries
          /\ last_event' = IF r.cb_raised THEN "msg_cb_raised" ELSE "msg"
          /\ IF r.escaped
             THEN /\ _is_connected' = FALSE
                  /\ GenericHandler(err_raises_again)
             ELSE UNCHANGED <<_is_connected, ws_pc, exit_reason, last_sleep>>
    /\ UNCHANGED <<_websocket, _is_running, _reconnect_count, connect_ctx,
                   fatal_reported, delays, stop_in_backoff>>
    /\ UNCHANGED exceptWs

ReceiveMessageAny ==
    \E kind \in MessageKinds, c, e1, e2 \in BOOLEAN : ReceiveMessage(kind, c, e1, e2)

\* a message arrives after stop_streaming: if not self._is_running: break
ReceiveAfterStop ==
    /\ ws_pc = "reading"
    /\ _websocket = "open"
    /\ ~_is_running
    /\ LoopTop(FALSE, IsConnected)
    /\ last_event' = "loop_end"
    /\ UNCHANGED <<_websocket, _is_connected, _is_running, _reconnect_count,
                   fatal_reported, delays, last_sleep, wsCounters, stop_in_backoff>>
    /\ UNCHANGED exceptWs

\* the iteration over a websocket that disconnect() closed ends
ReadLoopEnds ==
    /\ ws_pc = "reading"
    /\ _websocket # "open"
    /\ LoopTop(_is_running, IsConnected)
    /\ last_event' = "loop_end"
    /\ UNCHANGED <<_websocket, _is_connected, _is_running, _reconnect_count,
                   fatal_reported, delays, last_sleep, wsCounters, stop_in_backoff>>
    /\ UNCHANGED exceptWs

\* except ConnectionClosed (lines 211-217)
ConnectionClosed ==
    /\ ws_pc = "reading"
    /\ _websocket = "open"
    /\ _websocket' = "closed"
    /\ _is_connected' = FALSE
    /\ IF _is_running
       THEN BeginReconnect("reconnect_handler")
       ELSE /\ ws_pc' = "idle"
            /\ exit_reason' = "stopped"
            /\ UNCHANGED <<_reconnect_count, delays, last_sleep, connect_ctx,
                           fatal_reported>>
    /\ last_event' = "closed"
    /\ UNCHANGED <<_is_running, wsCounters, stop_in_backoff>>
    /\ UNCHANGED exceptWs

\* except WebSocketException (lines 219-228): the error callback may raise
WebSocketError(err_raises) ==
    /\ ws_pc = "reading"
    /\ _websocket = "open"
    /\ _websocket' = "closed"
    /\ _is_connected' = FALSE
    /\ IF err_raises
       THEN /\ ws_pc' = "idle"
            /\ exit_reason' = "raised"
            /\ UNCHANGED <<_reconnect_count, delays, last_sleep, connect_ctx,
                           fatal_reported>>
       ELSE IF _is_running
       THEN BeginReconnect("reconnect_handler")
       ELSE /\ ws_pc' = "idle"
            /\ exit_reason' = "stopped"
            /\ UNCHANGED <<_reconnect_count, delays, last_sleep, connect_ctx,
                           fatal_reported>>
    /\ last_event' = "ws_error"
    /\ UNCHANGED <<_is_running, wsCounters, stop_in_backoff>>
    /\ UNCHANGED exceptWs

WebSocketErrorAny == \E e \in BOOLEAN : WebSocketError(e)

-----------------------------------------------------------------------------
(* SlippageEstimator and MakerTakerPredictor: the training buffer and the    *)
(* fitted objects. A fitted object is represented by the number of the       *)
(* training attempt that fitted it, 0 for an object never fitted.            *)

Kinds == {"slippage", "maker_taker"}

\* self._max_history
_max_history == 10000
\* the literal of `len(self._features_history) % 100 == 0 and ... >= 100`
RetrainEvery == 100
\* len(self.quantiles)
NumQuantiles == 5
\* AdaptiveSlippageEstimator.min_samples_retrain
min_samples_retrain == 50

\* the statements of train_models / train_model that can raise, in order;
\* every statement before "evaluate" fits one object in place
TrainSteps(kind) ==
    IF kind = "slippage"
    THEN <<"scaler", "point", "q1", "q2", "q3", "q4", "q5", "evaluate">>
    ELSE <<"split", "scaler", "point", "evaluate">>

\* where an attempt can raise for data that add_observation accepts:
\*   slippage    - a non-finite target makes LinearRegression.fit raise when it
\*                 falls in the training split and the evaluation raise when
\*                 it falls in the test split; a quantile fit raises when its
\*                 linear-programming solver fails
\*   maker_taker - a label with a single member makes the stratified split
\*                 raise; a buffer with one label makes predict_proba(...)[:, 1]
\*                 raise in the evaluation; the classifier's fit can raise
\*                 (MemoryError)
FailSteps(kind) ==
    IF kind = "slippage"
    THEN {"point", "q1", "q2", "q3", "q4", "q5", "evaluate"}
    ELSE {"split", "point", "evaluate"}

Outcomes(kind) == FailSteps(kind) \cup {"none"}

StepIndex(kind, step) ==
    CHOOSE i \in 1..Len(TrainSteps(kind)) : TrainSteps(kind)[i] = step

\* the statement `step` ran to completion in an attempt that raised in `fail`
Done(kind, fail, step) ==
    /\ \E i \in 1..Len(TrainSteps(kind)) : TrainSteps(kind)[i] = step
    /\ fail = "none" \/ StepIndex(kind, step) < StepIndex(kind, fail)

QuantileStep(i) == <<"q1", "q2", "q3", "q4", "q5">>[i]

Unfitted == [scaler |-> 0, point |-> 0, quantiles |-> [i \in 1..NumQuantiles |-> 0]]

\* train_models / train_model: every fit replaces the object's state in place
TrainedModel(m, kind, v, fail) ==
    [scaler |-> IF Done(kind, fail, "scaler") THEN v ELSE m.scaler,
     point |-> IF Done(kind, fail, "point") THEN v ELSE m.point,
     quantiles |-> [i \in 1..NumQuantiles |->
                      IF Done(kind, fail, QuantileStep(i)) THEN v
                      ELSE m.quantiles[i]]]

\* the estimators' state as one value
ModelState ==
    [history_len |-> history_len, _features_history |-> _features_history,
     _outcomes_history |-> _outcomes_history,
     total_added |-> total_added, model |-> model,
     is_trained |-> is_trained, model_before |-> model_before, fits |-> fits,
     train_successes |-> train_successes,
     last_add |-> last_add]

SetModelState(st) ==
    /\ history_len' = st.history_len
    /\ _features_history' = st._features_history
    /\ _outcomes_history' = st._outcomes_history
    /\ total_added' = st.total_added
    /\ model' = st.model
    /\ is_trained' = st.is_trained
    /\ model_before' = st.model_before
    /\ fits' = st.fits
    /\ train_successes' = st.train_successes
    /\ last_add' = st.last_add

\* one call of train_models / train_model inside a try block
TrainAttempt(st, kind, fail) ==
    [st EXCEPT
       !.model_before[kind] = [model |-> st.model[kind],
                               is_trained |-> st.is_trained[kind]],
       !.fits[kind] = st.fits[kind] + 1,
       !.train_successes[kind] = IF fail = "none" THEN st.train_successes[kind] + 1
                                 ELSE st.train_successes[kind],
       !.model[kind] = TrainedModel(st.model[kind], kind, st.fits[kind] + 1, fail),
       !.is_trained[kind] = IF fail = "none" THEN TRUE ELSE st.is_trained[kind]]

\* a buffer whose entries are numbered in the order they were added holds
\* the entries first..last (none when last < first)
EmptyBuffer == [first |-> 1, last |-> 0]
BufferLen(buf) == IF buf.last < buf.first THEN 0 ELSE buf.last - buf.first + 1

\* list.append(entry) of the entry numbered n
BufferAppend(buf, n) == IF BufferLen(buf) = 0 THEN [first |-> n, last |-> n]
                        ELSE [buf EXCEPT !.last = n]

\* buf[-n:]
KeepLast(buf, n) ==
    IF BufferLen(buf) <= n THEN buf ELSE [buf EXCEPT !.first = buf.last - n + 1]

\* both appends, with the truncation of the feature buffer only
AppendedBuffersFeaturesTruncated(features, outcomes, n) ==
    LET f1 == BufferAppend(features, n)
        o1 == BufferAppend(outcomes, n)
    IN IF BufferLen(f1) > _max_history
       THEN [features |-> KeepLast(f1, _max_history), outcomes |-> o1]
       ELSE [features |-> f1, outcomes |-> o1]

\* lines 327-333 / 419-425: both appends, then both truncations under the
\* test of the feature buffer's length
AppendedBuffers(features, outcomes, n) ==
    LET f1 == BufferAppend(features, n)
        o1 == BufferAppend(outcomes, n)
    IN IF BufferLen(f1) > _max_history
       THEN [features |-> KeepLast(f1, _max_history),
             outcomes |-> KeepLast(o1, _max_history)]
       ELSE [features |-> f1, outcomes |-> o1]

\* the buffer length after one append and the truncation to _max_history
AppendedLen(len) == IF len + 1 > _max_history THEN _max_history ELSE len + 1

\* `if len(self._features_history) % 100 == 0 and len(...) >= 100`
RetrainDue(len) == len % RetrainEvery = 0 /\ len >= RetrainEvery

\* add_observation(features, value) of the estimator `kind`
AddObservation(st, kind, fail) ==
    LET len == AppendedLen(st.history_len[kind])
        buffers == AppendedBuffers(st._features_history[kind],
                                   st._outcomes_history[kind],
                                   st.total_added[kind] + 1)
        appended == [st EXCEPT !.history_len[kind] = len,
                               !._features_history[kind] = buffers.features,
                               !._outcomes_history[kind] = buffers.outcomes,
                               !.total_added[kind] = st.total_added[kind] + 1]
        after == IF RetrainDue(len) THEN TrainAttempt(appended, kind, fail)
                 ELSE appended
    IN [after EXCEPT !.last_add = [kind |-> kind, retrain |-> RetrainDue(len),
                                   failed |-> RetrainDue(len) /\ fail # "none"]]

\* add_observation called directly on one estimator, `limit` calls at most;
\* the two estimators share no state, and a run feeds one of them
FeedObservation(kind, fail, limit) ==
    /\ \A other \in Kinds \ {kind} : total_added[other] = 0
    /\ total_added[kind] < limit
    /\ SetModelState(AddObservation(ModelState, kind, fail))
    /\ UNCHANGED last_trade_result
    /\ UNCHANGED exceptModel

\* observations of any content
SlippageAddObservation ==
    \E fail \in Outcomes("slippage") :
        FeedObservation("slippage", fail, MaxObservations)

MakerTakerAddObservation ==
    \E fail \in Outcomes("maker_taker") :
        FeedObservation("maker_taker", fail, MaxObservations)

\* observations on which no training attempt raises: finite features and
\* targets, both labels well represented
SlippageAddCleanObservation ==
    FeedObservation("slippage", "none", MaxCadenceObservations)

MakerTakerAddCleanObservation ==
    FeedObservation("maker_taker", "none", MaxCadenceObservations)

-----------------------------------------------------------------------------
(* AlmgrenChrissParams, AlmgrenChrissModel and AdaptiveAlmgrenChriss.       *)
(* Floats are fixed-point integers: gamma, eta and epsilon in units of      *)
(* 1e-6, sigma in units of 1e-2, tau in units of 0.1 s, rates in tenths.    *)

\* AdaptiveAlmgrenChriss._max_history
AlmgrenMaxHistory == 100
\* the literal of `len(self._recent_trades) % 10 == 0`
AdaptEvery == 10

\* AdaptiveAlmgrenChriss.update_with_trade
RecentTradesLen(len) == IF len + 1 > AlmgrenMaxHistory THEN AlmgrenMaxHistory ELSE len + 1

\* the parameters TradeSimulator._initialize_models constructs the model with
SimulatorParams ==
    [sigma |-> 2, gamma |-> 100000, eta |-> 10, epsilon |-> 100, tau |-> 3000]

\* the default adaptation_rate (0.1), in tenths
DefaultAdaptationRate == 1
\* 1.0 in tenths
RateOne == 10

\* __post_init__ without the test of eta
post_initWithoutEta(p) ==
    /\ ~(p.sigma <= 0)
    /\ ~(p.gamma <= 0)
    /\ ~(p.epsilon < 0)
    /\ ~(p.tau <= 0)

\* AlmgrenChrissParams.__post_init__ returns without raising
post_init(p) ==
    /\ ~(p.sigma <= 0)
    /\ ~(p.gamma <= 0)
    /\ ~(p.eta < 0)
    /\ ~(p.epsilon < 0)
    /\ ~(p.tau <= 0)

\* the values optimize_parameters returns when result.success is false
OptimizeDefaults == [gamma |-> 100000, eta |-> 1000, epsilon |-> 10000, tau |-> 10]

\* result.x of minimize(..., bounds=[(1e-6, 10), (1e-6, 1), (1e-6, 1), (0.1, 10)]):
\* the lower corner, the initial guess and the upper corner of the box
OptimizeResults ==
    { [gamma |-> 1, eta |-> 1, epsilon |-> 1, tau |-> 1],
      [gamma |-> 100000, eta |-> 1000, epsilon |-> 10000, tau |-> 10],
      [gamma |-> 10000000, eta |-> 1000000, epsilon |-> 1000000, tau |-> 100] }

\* what the recent trades make of one optimize_parameters call: whether the
\* estimated sigma is positive (it is 0 when all trade prices are equal),
\* whether the optimizer reports success, and its result.x
OptimizeOutcomes ==
    { [sigma_ok |-> FALSE, success |-> TRUE,
       x |-> [gamma |-> 100000, eta |-> 1000, epsilon |-> 10000, tau |-> 10]] }
    \cup { [sigma_ok |-> TRUE, success |-> FALSE,
            x |-> [gamma |-> 100000, eta |-> 1000, epsilon |-> 10000, tau |-> 10]] }
    \cup { [sigma_ok |-> TRUE, success |-> TRUE, x |-> x] : x \in OptimizeResults }

NoOptimization == [sigma_ok |-> TRUE, success |-> TRUE, x |-> OptimizeDefaults]

\* optimize_parameters: AlmgrenChrissParams(sigma=sigma, ...) raises ValueError
\* for sigma = 0 in either branch
OptimizeParameters(o) ==
    IF ~o.sigma_ok THEN [raised |-> TRUE, params |-> OptimizeDefaults]
    ELSE IF o.success THEN [raised |-> FALSE, params |-> o.x]
    ELSE [raised |-> FALSE, params |-> OptimizeDefaults]

\* (1 - rate) * current + rate * new, with the weights swapped
BlendSwapped(current, new, rate) ==
    (rate * current + (RateOne - rate) * new) \div RateOne

\* (1 - self.adaptation_rate) * current + self.adaptation_rate * new
Blend(current, new, rate) ==
    ((RateOne - rate) * current + rate * new) \div RateOne

\* the literal of `if len(self._recent_trades) < 10: return`
AdaptMinTrades == 10

\* _adapt_parameters: the parameters after the cycle
AdaptParameters(p, rate, len, o) ==
    IF len < AdaptMinTrades \/ OptimizeParameters(o).raised THEN p
    ELSE LET new == OptimizeParameters(o).params
         IN [p EXCEPT !.gamma = Blend(p.gamma, new.gamma, rate),
                      !.eta = Blend(p.eta, new.eta, rate),
                      !.epsilon = Blend(p.epsilon, new.epsilon, rate)]

\* self.model.params: AlmgrenChrissModel(self.current_params) keeps a
\* reference to the same object
ModelParams == current_params

OutcomeName(o) ==
    IF ~o.sigma_ok THEN "raised" ELSE IF o.success THEN "success" ELSE "failed"

\* update_with_trade(trade_data) with the outcome of the optimization it may run
AlmgrenUpdate(o) ==
    LET len == RecentTradesLen(_recent_trades_len)
        due == len % AdaptEvery = 0
    IN /\ _recent_trades_len' = len
       /\ outcomes_added' = outcomes_added + 1
       /\ adapt_calls' = IF due THEN adapt_calls + 1 ELSE adapt_calls
       /\ current_params' =
             IF due THEN AdaptParameters(current_params, adaptation_rate, len, o)
             ELSE current_params
       /\ last_update' = [adapted |-> due,
                          outcome |-> IF due /\ len >= AdaptMinTrades
                                      THEN OutcomeName(o) ELSE "none",
                          before |-> current_params]
       /\ UNCHANGED <<adaptation_rate, initial_params, last_construct, strategy>>

\* the outcomes of an optimization matter only on a call that runs one
AdaptOutcomes ==
    IF RecentTradesLen(_recent_trades_len) % AdaptEvery = 0
    THEN OptimizeOutcomes ELSE {NoOptimization}

\* arguments AlmgrenChrissParams(...) is constructed with: the simulator's
\* values, a set with eta = epsilon = 0, a set with a large kappa * tau, and
\* one set for each test of __post_init__
ParamCandidates ==
    { SimulatorParams,
      [sigma |-> 2, gamma |-> 100000, eta |-> 0, epsilon |-> 0, tau |-> 10],
      [sigma |-> 30, gamma |-> 1000000, eta |-> 1, epsilon |-> 1, tau |-> 100],
      [sigma |-> 0, gamma |-> 100000, eta |-> 10, epsilon |-> 100, tau |-> 10],
      [sigma |-> 2, gamma |-> -1, eta |-> 10, epsilon |-> 100, tau |-> 10],
      [sigma |-> 2, gamma |-> 100000, eta |-> -1, epsilon |-> 100, tau |-> 10],
      [sigma |-> 2, gamma |-> 100000, eta |-> 10, epsilon |-> -1, tau |-> 10],
      [sigma |-> 2, gamma |-> 100000, eta |-> 10, epsilon |-> 100, tau |-> 0] }

\* adaptation rates in [0, 1], in tenths
RateCandidates == {0, 1, 5, 10}

\* AdaptiveAlmgrenChriss(AlmgrenChrissParams(**p), rate) on a fresh object:
\* with arguments __post_init__ rejects nothing is constructed
NewAdaptiveAlmgrenChriss(p, rate) ==
    /\ outcomes_added = 0
    /\ last_construct' = [params |-> p, raised |-> ~post_init(p)]
    /\ IF post_init(p)
       THEN /\ current_params' = p
            /\ initial_params' = p
            /\ adaptation_rate' = rate
            /\ strategy' = None
       ELSE UNCHANGED <<current_params, initial_params, adaptation_rate, strategy>>
    /\ UNCHANGED <<outcomes_added, last_update, tradeVars>>
    /\ UNCHANGED exceptAlmgren

NewAdaptiveAlmgrenChrissAny ==
    \E p \in ParamCandidates, rate \in RateCandidates :
        NewAdaptiveAlmgrenChriss(p, rate)

\* AdaptiveAlmgrenChriss.update_with_trade(trade_data)
UpdateWithTrade(limit) ==
    /\ outcomes_added < limit
    /\ \E o \in AdaptOutcomes : AlmgrenUpdate(o)
    /\ UNCHANGED <<trade_count, trade_history_len, _trades_since_retrain,
                   trade_applied, trade_raised>>
    /\ UNCHANGED exceptAlmgren

\* update_with_trade with trades that all have the same price: the sigma
\* optimize_parameters estimates is 0
UpdateWithConstantPriceTrade(limit) ==
    /\ outcomes_added < limit
    /\ \E o \in {c \in OptimizeOutcomes : ~c.sigma_ok} : AlmgrenUpdate(o)
    /\ UNCHANGED <<trade_count, trade_history_len, _trades_since_retrain,
                   trade_applied, trade_raised>>
    /\ UNCHANGED exceptAlmgren

Float(v) == [nan |-> FALSE, value |-> v]
NaN == [nan |-> TRUE, value |-> 0]

\* kappa^2 = gamma * sigma^2 / eta, in units of 1e-4 (eta # 0)
KappaSquared(p) == (p.gamma * p.sigma * p.sigma) \div p.eta

\* np.sinh(x) is inf for x > 710.47: as a bound on kappa^2 * tau^2
SinhOverflowSquared == 504100

\* np.sinh(kappa * tau) overflows: kappa^2 * tau^2 > 710^2, evaluated in
\* pieces that stay within 32-bit integers
SinhOverflows(p) ==
    IF p.tau * p.tau <= SinhOverflowSquared \div 2000 THEN FALSE
    ELSE IF p.tau < 1000
         THEN KappaSquared(p) > ((SinhOverflowSquared * 1000) \div (p.tau * p.tau)) * 1000
         ELSE KappaSquared(p) > (((SinhOverflowSquared * 1000) \div p.tau) * 1000) \div p.tau

\* calculate_optimal_strategy(initial_position, n_intervals): the length of
\* holdings and its first and last entries; _calculate_kappa divides by eta,
\* dt = tau / n_intervals raises ZeroDivisionError for no interval (tau is
\* a Python float), and inf / inf is nan
OptimalStrategy(p, initial_position, n_intervals) ==
    IF p.eta = 0 \/ n_intervals = 0
    THEN [raised |-> TRUE, n_holdings |-> 0, first |-> NaN, last |-> NaN,
          initial_position |-> initial_position, n_intervals |-> n_intervals]
    ELSE [raised |-> FALSE,
          n_holdings |-> n_intervals + 1,
          first |-> IF SinhOverflows(p) THEN NaN ELSE Float(initial_position),
          last |-> Float(0),
          initial_position |-> initial_position, n_intervals |-> n_intervals]

PositionCandidates == {1, 100}
IntervalCandidates == {1, 2, 30}

\* self.model.calculate_optimal_strategy(initial_position, n_intervals)
CalculateOptimalStrategy(initial_position, n_intervals) ==
    /\ strategy' = OptimalStrategy(ModelParams, initial_position, n_intervals)
    /\ UNCHANGED <<current_params, adaptation_rate, initial_params, outcomes_added,
                   last_update, last_construct, tradeVars>>
    /\ UNCHANGED exceptAlmgren

CalculateOptimalStrategyAny ==
    \E initial_position \in PositionCandidates, n_intervals \in IntervalCandidates :
        CalculateOptimalStrategy(initial_position, n_intervals)

-----------------------------------------------------------------------------
(* TradeSimulator.estimate_trade_cost, statement by statement                *)

\* TradeParameters: order_type, side, limit_price (0 stands for None: the code
\* reads the field as `limit_price or ...` only)
\* TradeParameters.time_horizon: the default, and a horizon under 10 seconds
DefaultTimeHorizon == 300
ShortTimeHorizon == 5

TradeParameterSets ==
    { [trade_size |-> 1, order_type |-> "market", side |-> "buy", limit_price |-> 0,
       time_horizon |-> DefaultTimeHorizon],
      [trade_size |-> 1, order_type |-> "market", side |-> "sell", limit_price |-> 0,
       time_horizon |-> DefaultTimeHorizon],
      [trade_size |-> 1, order_type |-> "limit", side |-> "buy", limit_price |-> 101,
       time_horizon |-> DefaultTimeHorizon],
      [trade_size |-> 1, order_type |-> "limit", side |-> "buy", limit_price |-> 0,
       time_horizon |-> DefaultTimeHorizon],
      [trade_size |-> 1, order_type |-> "market", side |-> "buy", limit_price |-> 0,
       time_horizon |-> ShortTimeHorizon] }

\* lines 336-342 with the two sides of the book exchanged
ExecutionPriceSwapped(ob, params) ==
    IF params.order_type = "market"
    THEN IF params.side = "buy" THEN SimBid(ob) ELSE SimAsk(ob)
    ELSE params.limit_price

\* lines 336-342
ExecutionPrice(ob, params) ==
    IF params.order_type = "market"
    THEN IF params.side = "buy" THEN SimAsk(ob) ELSE SimBid(ob)
    ELSE params.limit_price

\* lines 326-346: the None check, `orderbook = self.current_orderbook`, the
\* execution price
EstBegin(params) ==
    /\ est_pc = "idle"
    /\ est_calls < MaxEstimates
    /\ est_calls' = est_calls + 1
    /\ est_hist' = <<>>
    /\ est_hist_gen' = 0
    /\ est_params' = params
    /\ est_predicts' = {}
    /\ est_estimate' = None
    /\ est_callback_calls' = 0
    /\ IF current_orderbook = None
       THEN /\ est_result' = "no_orderbook"
            /\ est_pc' = "idle"
            /\ est_price' = 0
            /\ UNCHANGED <<est_ob, est_ob_gen>>
       ELSE /\ est_ob' = current_orderbook
            /\ est_ob_gen' = ob_gen
            /\ est_price' = ExecutionPrice(current_orderbook, params)
            /\ IF ExecutionPrice(current_orderbook, params) <= 0
               THEN est_result' = "invalid_price" /\ est_pc' = "idle"
               ELSE est_result' = "pending" /\ est_pc' = "history"
    /\ UNCHANGED <<histVars, simMarketVars, wsVars, tradeVars, modelVars, almgrenVars,
                   serviceVars>>

EstBeginAny == \E params \in TradeParameterSets : EstBegin(params)

\* _get_historical_data (lines 440-447)
HistoricalData ==
    [prices |-> sim_price_history, volumes |-> sim_volume_history,
     spreads |-> sim_spread_history]

\* line 349: historical_data = self._get_historical_data()
\* the histories read by emptying the price deque
EstReadHistoryDraining ==
    /\ est_pc = "history"
    /\ est_hist' = HistoricalData
    /\ est_hist_gen' = hist_gen
    /\ est_pc' = "compute"
    /\ sim_price_history' = <<>>
    /\ UNCHANGED <<est_ob, est_ob_gen, est_calls, est_result, est_params, est_price,
                   est_predicts, est_estimate, est_callback_calls>>
    /\ UNCHANGED <<current_orderbook, sim_spread_history,
                   sim_volume_history, sim_price_log, sim_spread_log, sim_volume_log,
                   upd_pc, upd_ob, upd_gen, ob_gen, hist_gen, sim_error_calls>>
    /\ UNCHANGED <<histVars, wsVars, tradeVars, modelVars, almgrenVars, serviceVars>>

EstReadHistory ==
    /\ est_pc = "history"
    /\ est_hist' = HistoricalData
    /\ est_hist_gen' = hist_gen
    /\ est_pc' = "compute"
    /\ UNCHANGED <<est_ob, est_ob_gen, est_calls, est_result, est_params, est_price,
                   est_predicts, est_estimate, est_callback_calls>>
    /\ UNCHANGED <<histVars, simMarketVars, wsVars, tradeVars, modelVars, almgrenVars,
                   serviceVars>>

\* fixed point of the cost fields: money in units of 1e-5, probabilities and
\* confidences in percent, cost_bps in units of 1e-3 basis points
MoneyScale == 100000
ProbOne == 100
BpsPerMoney == 100

\* FeeStructure(maker_fee_rate=0.0002, taker_fee_rate=0.0005, ...) and its
\* tier for daily_volume 0, in units of 1e-5
MakerFeeRate == 20
TakerFeeRate == 50

\* calculate_expected_fee: maker_probability * maker_fee + (1 - maker_probability) * taker_fee
ExpectedFee(trade_amount, maker_probability) ==
    (maker_probability * (trade_amount * MakerFeeRate)
     + (ProbOne - maker_probability) * (trade_amount * TakerFeeRate)) \div ProbOne

\* calculate_market_impact: eta * trade_size + epsilon * trade_size (1e-6 to 1e-5)
MarketImpact(p, trade_size) == (p.eta * trade_size + p.epsilon * trade_size) \div 10

\* lines 380-383: half the spread, 0 when a side is empty
FallbackSlippage(ob) ==
    (IF ob.asks # <<>> /\ ob.bids # <<>> THEN ob.asks[1][1] - ob.bids[1][1] ELSE 0)
    * (MoneyScale \div 2)

\* slippage_confidence of the two branches (0.8 and 0.5)
PredictedConfidence == 80
FallbackConfidence == 50

\* maker_prob of an untrained predictor (0.5)
DefaultMakerProbability == 50

\* the sum without the market impact
TotalCostWithoutImpact(fee, slippage, impact) == fee + slippage

\* fee_breakdown.expected_fee + slippage_estimate + market_impact
TotalCost(fee, slippage, impact) == fee + slippage + impact

\* (total / trade_amount) * 10000
CostBps(total, trade_amount) == (total * BpsPerMoney) \div trade_amount

\* n_intervals=int(trade_params.time_horizon / 10)
StrategyIntervals(params) == params.time_horizon \div 10

\* a prediction is requested whatever the state of the model
UsePredictionAlways(kind) == TRUE

\* `if self.slippage_estimator.is_trained:` and
\* `if self.maker_taker_predictor.is_trained:`
UsePrediction(kind) == is_trained[kind]

\* MakerTakerPredictor.extract_features: orderbook.timestamp - timestamps[-1]
\* with a timestamp that is no number
ExtractFeaturesRaises(ob, hist) ==
    hist.prices # <<>> /\ ob.timestamp.kind # "epoch_ms"

\* what predict_slippage(...).expected_slippage and predict_maker_probability
\* return on a trained model
SlippagePredictions == {0, 3 * MoneyScale}
MakerPredictions == {10, 90}

PredictionsOf(kind, values) ==
    IF is_trained[kind] THEN values ELSE {CHOOSE v \in values : TRUE}

\* lines 351-422 on the locals of the call: the models whose predict method
\* is invoked, whether an exception is raised, and the estimate
EstimateLocals(slippage_predicted, maker_predicted) ==
    LET trade_size == est_params.trade_size
        trade_amount == trade_size * est_price
        strategy_raised ==
            OptimalStrategy(ModelParams, trade_size, StrategyIntervals(est_params)).raised
        market_impact == MarketImpact(ModelParams, trade_size)
        use_slippage == ~strategy_raised /\ UsePrediction("slippage")
        slippage_raised == use_slippage /\ ~is_trained["slippage"]
        slippage_cost == IF use_slippage THEN slippage_predicted
                         ELSE FallbackSlippage(est_ob)
        slippage_confidence == IF use_slippage THEN PredictedConfidence
                               ELSE FallbackConfidence
        cost_reached == ~strategy_raised /\ ~slippage_raised
        use_maker == cost_reached /\ UsePrediction("maker_taker")
        extract_raised == use_maker /\ ExtractFeaturesRaises(est_ob, est_hist)
        maker_invoked == use_maker /\ ~extract_raised
        maker_raised == maker_invoked /\ ~is_trained["maker_taker"]
        maker_prob == IF use_maker THEN maker_predicted ELSE DefaultMakerProbability
        exchange_fee == ExpectedFee(trade_amount, maker_prob)
        total_cost == TotalCost(exchange_fee, slippage_cost, market_impact)
        raised == strategy_raised \/ slippage_raised \/ extract_raised \/ maker_raised
    IN [raised |-> raised,
        predicts |-> (IF use_slippage THEN {"slippage"} ELSE {})
                     \cup (IF maker_invoked THEN {"maker_taker"} ELSE {}),
        estimate |->
            IF raised THEN None
            ELSE [trade_params |-> est_params,
                  current_price |-> est_price,
                  exchange_fee |-> exchange_fee,
                  slippage_cost |-> slippage_cost,
                  market_impact |-> market_impact,
                  total_cost |-> total_cost,
                  cost_bps |-> CostBps(total_cost, trade_amount),
                  maker_probability |-> maker_prob,
                  slippage_confidence |-> slippage_confidence,
                  slippage_trained |-> is_trained["slippage"],
                  maker_taker_trained |-> is_trained["maker_taker"]]]

\* lines 351-438: the estimate is computed from the locals; the call of
\* track_processing_latency raises, the except clause invokes the error
\* callback and the method returns None
EstFinish ==
    /\ est_pc = "compute"
    /\ \E slippage_predicted \in PredictionsOf("slippage", SlippagePredictions),
          maker_predicted \in PredictionsOf("maker_taker", MakerPredictions) :
          LET locals == EstimateLocals(slippage_predicted, maker_predicted)
          IN /\ est_predicts' = locals.predicts
             /\ est_estimate' = locals.estimate
             /\ IF ~locals.raised
                   /\ "track_processing_latency" \in PerformanceMonitorMethods
                THEN /\ est_result' = "estimate"
                     /\ est_callback_calls' = est_callback_calls + 1
                     /\ UNCHANGED sim_error_calls
                ELSE /\ est_result' = "error"
                     /\ sim_error_calls' = sim_error_calls + 1
                     /\ UNCHANGED est_callback_calls
    /\ est_pc' = "idle"
    /\ UNCHANGED <<est_ob, est_hist, est_ob_gen, est_hist_gen, est_calls,
                   est_params, est_price>>
    /\ UNCHANGED <<current_orderbook, sim_price_history, sim_spread_history,
                   sim_volume_history, sim_price_log, sim_spread_log, sim_volume_log,
                   upd_pc, upd_ob, upd_gen, ob_gen, hist_gen>>
    /\ UNCHANGED <<histVars, wsVars, tradeVars, modelVars, almgrenVars, serviceVars>>

\* the snapshot bid 49990 x 2, ask 50010 x 2
EndToEndSnapshot ==
    [timestamp |-> [kind |-> "epoch_ms", value |-> 4],
     bids |-> << <<49990, 2>> >>, asks |-> << <<50010, 2>> >>]

EstimateSnapshots == Snapshots \cup {EndToEndSnapshot}

\* _handle_orderbook_update entered with one of the snapshots
EstimateSetOrderbook ==
    /\ upd_gen < MaxEstimateUpdates
    /\ \E ob \in EstimateSnapshots : UpdSetOrderbook(ob)

\* estimate_trade_cost entered
EstimateBegin ==
    /\ est_calls < MaxEstimateCalls
    /\ EstBeginAny

\* train_models / train_model called on an estimator with data on which no
\* fit raises
TrainDirect(kind) ==
    /\ fits[kind] = 0
    /\ SetModelState(TrainAttempt(ModelState, kind, "none"))
    /\ UNCHANGED last_trade_result
    /\ UNCHANGED exceptModel

SlippageTrainModels == TrainDirect("slippage")
MakerTakerTrainModel == TrainDirect("maker_taker")

-----------------------------------------------------------------------------
(* TradeSimulator.get_statistics *)

\* lines 518-536: the dictionary is built from reads of the simulator's
\* fields; self.performance_monitor.get_performance_stats() raises
\* AttributeError when PerformanceMonitor has no such method, and the
\* exception leaves the method
GetStatistics ==
    /\ stats_result' = IF "get_performance_stats" \in PerformanceMonitorMethods
                       THEN "statistics" ELSE "raised"
    /\ UNCHANGED <<feeVars, callVars, procVars, apiVars>>
    /\ UNCHANGED exceptService

-----------------------------------------------------------------------------
(* main.py, POST /api/estimate.  Units: trade sizes 1e-4 BTC, prices 100
   USD (so a notional is in cents), rates 1e-5, costs before rounding
   1e-5 cents, costs returned cents, cost_bps returned 0.01 bps *)

\* one cent in the unit of the costs before rounding
Cent == 100000

\* trade_size of the requests, up to 0.25 BTC
TradeSizes == {1, 5, 25, 100, 1000, 2500}

\* current_price = 50000.0 + (hash(...) % 1000 - 500)
CurrentPrices == {495, 500, 504}

TradeRequests ==
    [trade_size : TradeSizes, order_type : {"market", "limit"},
     time_horizon : {30, 60, 300, 600}]

\* exchange_fee_rate, lines 184-187
ApiMakerRate == 20
ApiTakerRate == 50
ExchangeFeeRate(request) ==
    IF request.order_type = "limit" THEN ApiMakerRate ELSE ApiTakerRate

\* slippage_rate, lines 192-196: 2 bps, doubled under a minute, and
\* multiplied by 1 + (trade_size - 1) * 0.1 above 1 BTC
SlippageRate(request) ==
    LET base == IF request.time_horizon < 60 THEN 40 ELSE 20
    IN IF request.trade_size > 10000
       THEN (base * (90000 + request.trade_size)) \div 100000
       ELSE base

\* market_impact_rate, lines 201-203: 1 bp, multiplied by
\* 1 + (trade_size - 0.5) * 0.2 above 0.5 BTC
MarketImpactRate(request) ==
    IF request.trade_size > 5000
    THEN (10 * (45000 + request.trade_size)) \div 50000
    ELSE 10

\* round(x, 2) of a value given in units of 1/unit of the result's last
\* digit: the nearest value, either neighbour for a value the float
\* arithmetic leaves half-way
Round2(x, unit) ==
    LET q == x \div unit
        r == x % unit
    IN IF 2 * r < unit THEN {q}
       ELSE IF 2 * r > unit THEN {q + 1}
       ELSE {q, q + 1}

\* lines 180-211 before rounding
CostBreakdown(request, current_price) ==
    LET notional_value == request.trade_size * current_price
        exchange_fee == notional_value * ExchangeFeeRate(request)
        slippage_cost == notional_value * SlippageRate(request)
        market_impact_cost == notional_value * MarketImpactRate(request)
        total_cost == exchange_fee + slippage_cost + market_impact_cost
    IN [notional_value |-> notional_value, exchange_fee |-> exchange_fee,
        slippage_cost |-> slippage_cost, market_impact |-> market_impact_cost,
        total_cost |-> total_cost,
        cost_bps |-> IF notional_value > 0
                     THEN (total_cost * 10) \div notional_value ELSE 0]

\* the cost_breakdown of the response, lines 249-255
RoundedBreakdowns(costs) ==
    [total_cost : Round2(costs.total_cost, Cent),
     exchange_fee : Round2(costs.exchange_fee, Cent),
     slippage_cost : Round2(costs.slippage_cost, Cent),
     market_impact : Round2(costs.market_impact, Cent),
     cost_bps : {costs.cost_bps}]

\* PerformanceTracker.record_trade
RecordTrade == api_trade_count' = api_trade_count + 1

ApiEstimateTradeCost(request, current_price) ==
    /\ api_trade_count < MaxRequests
    /\ \E cost_breakdown \in RoundedBreakdowns(CostBreakdown(request, current_price)) :
          api_response' = [request |-> request, current_price |-> current_price,
                           cost_breakdown |-> cost_breakdown]
    /\ RecordTrade
    /\ UNCHANGED <<feeVars, callVars, procVars, statsVars>>
    /\ UNCHANGED exceptService

ApiEstimateTradeCostAny ==
    \E request \in TradeRequests, current_price \in CurrentPrices :
        ApiEstimateTradeCost(request, current_price)

-----------------------------------------------------------------------------
(* train_models / train_model and the predict methods called directly *)

\* the literal of `if len(features_list) < 10:`
MinTrainSamples == 10

\* the two tests without the one of the number of samples
TrainingRejectedOnLengthOnly(n_features, n_outcomes) ==
    n_features # n_outcomes

\* lines 198-202 / 332-336: the call raises ValueError before anything else
TrainingRejected(n_features, n_outcomes) ==
    n_features # n_outcomes \/ n_features < MinTrainSamples

\* lengths of the two lists passed to a training call
SampleCounts == {9, 10, 12}

\* what a training call can change of the estimator `kind`
EstimatorState(kind) ==
    [model |-> model[kind], is_trained |-> is_trained[kind],
     features |-> _features_history[kind], outcomes |-> _outcomes_history[kind]]

\* train_models(features_list, slippage_list) /
\* train_model(features_list, order_types) with lists of the given lengths
TrainModels(kind, n_features, n_outcomes, fail) ==
    /\ train_call' = [kind |-> kind, n_features |-> n_features,
                      n_outcomes |-> n_outcomes,
                      raised |-> TrainingRejected(n_features, n_outcomes)
                                 \/ fail # "none",
                      before |-> EstimatorState(kind)]
    /\ IF TrainingRejected(n_features, n_outcomes)
       THEN UNCHANGED modelVars
       ELSE /\ fits[kind] < MaxTrainCalls
            /\ SetModelState(TrainAttempt(ModelState, kind, fail))
            /\ UNCHANGED last_trade_result
    /\ UNCHANGED <<feeVars, procVars, apiVars, statsVars, predict_call>>
    /\ UNCHANGED <<histVars, simMarketVars, wsVars, estVars, tradeVars, almgrenVars>>

TrainModelsAny ==
    \E kind \in Kinds, n_features \in SampleCounts, n_outcomes \in SampleCounts :
        \E fail \in (IF TrainingRejected(n_features, n_outcomes) THEN {"none"}
                     ELSE Outcomes(kind)) :
            TrainModels(kind, n_features, n_outcomes, fail)

\* predict_slippage(features) / predict_maker_probability(features):
\* `if not self.is_trained: raise ValueError(...)`
Predict(kind) ==
    /\ predict_call' = [kind |-> kind, raised |-> ~is_trained[kind],
                        train_successes |-> train_successes[kind]]
    /\ UNCHANGED <<feeVars, procVars, apiVars, statsVars, train_call>>
    /\ UNCHANGED exceptService

PredictAny == \E kind \in Kinds : Predict(kind)

-----------------------------------------------------------------------------
(* FeeCalculator: rates in units of 1e-6, volumes in units of 100,000 *)

\* the FeeStructure TradeSimulator._initialize_models builds
SimulatorFeeStructure ==
    [maker_fee_rate |-> 200, taker_fee_rate |-> 500,
     volume_tiers |-> { [min_volume |-> 0, maker |-> 200, taker |-> 500],
                        [min_volume |-> 10, maker |-> 150, taker |-> 450],
                        [min_volume |-> 50, maker |-> 100, taker |-> 400],
                        [min_volume |-> 250, maker |-> 80, taker |-> 350],
                        [min_volume |-> 1000, maker |-> 60, taker |-> 300] }]

\* fee structures a FeeCalculator is constructed with: the simulator's, and
\* one whose lowest tier starts above volume 0
FeeStructures ==
    { SimulatorFeeStructure,
      [maker_fee_rate |-> 200, taker_fee_rate |-> 500,
       volume_tiers |-> { [min_volume |-> 50, maker |-> 100, taker |-> 400],
                          [min_volume |-> 10, maker |-> 150, taker |-> 450] }] }

RECURSIVE SortedTiers(_)
\* sorted(self.fee_structure.volume_tiers.items())
SortedTiers(tiers) ==
    IF tiers = {} THEN <<>>
    ELSE LET first == CHOOSE t \in tiers :
                          \A u \in tiers : t.min_volume <= u.min_volume
         IN <<first>> \o SortedTiers(tiers \ {first})

RECURSIVE ApplicableRates(_, _, _)
\* the loop of lines 97-101 over the sorted tiers, from `applicable`
ApplicableRates(tiers, volume, applicable) ==
    IF tiers = <<>> THEN applicable
    ELSE IF volume >= Head(tiers).min_volume
         THEN ApplicableRates(Tail(tiers), volume,
                              <<Head(tiers).maker, Head(tiers).taker>>)
         ELSE applicable

\* volume = current_volume or self.daily_volume: None and 0 are both falsy
EffectiveVolume(current_volume, daily) ==
    IF current_volume = None THEN daily
    ELSE IF current_volume.value = 0 THEN daily
    ELSE current_volume.value

\* get_current_fee_rates(current_volume), as (maker_rate, taker_rate)
CurrentFeeRates(fs, current_volume, daily) ==
    ApplicableRates(SortedTiers(fs.volume_tiers),
                    EffectiveVolume(current_volume, daily),
                    <<fs.maker_fee_rate, fs.taker_fee_rate>>)

\* the volumes passed to get_current_fee_rates and update_volume
VolumeCandidates == {0, 5, 10, 49, 50, 1000}
Volume(v) == [value |-> v]

\* FeeCalculator(fee_structure) before any call
NewFeeCalculator(fs) ==
    /\ fee_rates = None
    /\ daily_volume = 0
    /\ fee_structure' = fs
    /\ UNCHANGED <<daily_volume, fee_rates>>
    /\ UNCHANGED <<callVars, procVars, apiVars, statsVars, exceptService>>

NewFeeCalculatorAny == \E fs \in FeeStructures : NewFeeCalculator(fs)

\* update_volume(new_trade_volume)
UpdateVolume(new_trade_volume) ==
    /\ daily_volume + new_trade_volume <= MaxDailyVolume
    /\ daily_volume' = daily_volume + new_trade_volume
    /\ UNCHANGED <<fee_structure, fee_rates>>
    /\ UNCHANGED <<callVars, procVars, apiVars, statsVars, exceptService>>

UpdateVolumeAny == \E v \in VolumeCandidates \ {0} : UpdateVolume(v)

\* reset_daily_volume()
ResetDailyVolume ==
    /\ daily_volume' = 0
    /\ UNCHANGED <<fee_structure, fee_rates>>
    /\ UNCHANGED <<callVars, procVars, apiVars, statsVars, exceptService>>

\* get_current_fee_rates(current_volume); current_volume is None when the
\* argument is omitted
GetCurrentFeeRates(current_volume) ==
    /\ fee_rates' = [current_volume |-> current_volume,
                     rates |-> CurrentFeeRates(fee_structure, current_volume,
                                               daily_volume)]
    /\ UNCHANGED <<fee_structure, daily_volume>>
    /\ UNCHANGED <<callVars, procVars, apiVars, statsVars, exceptService>>

GetCurrentFeeRatesAny ==
    \E current_volume \in {None} \cup {Volume(v) : v \in VolumeCandidates} :
        GetCurrentFeeRates(current_volume)

-----------------------------------------------------------------------------
(* TradeSimulator.add_trade_result: one try block around everything          *)

\* SimulationConfig.max_trade_history
max_trade_history == 500

ModelUpdates == {"slippage", "maker_taker", "almgren"}

\* line 491 raises IndexError for `None or asks[0][0]` with no asks;
\* MakerTakerPredictor.extract_features (fee_calculator.py:272) subtracts a
\* float from orderbook.timestamp whenever the price history is not empty,
\* a TypeError unless the timestamp is a number
MakerTakerUpdateRaises(ob, params) ==
    \/ params.limit_price = 0 /\ ob.asks = <<>>
    \/ sim_price_history # <<>> /\ ob.timestamp.kind # "epoch_ms"

\* AdaptiveSlippageEstimator.add_trade_result: add_observation, then the
\* adaptive retrain on the recent samples
AdaptiveRetrainDue(since, len) ==
    since >= min_samples_retrain /\ len >= min_samples_retrain

SlippageAddTradeResult(st, fail, fail_adaptive) ==
    LET st1 == AddObservation(st, "slippage", fail)
    IN IF AdaptiveRetrainDue(_trades_since_retrain + 1, st1.history_len["slippage"])
       THEN TrainAttempt(st1, "slippage", fail_adaptive)
       ELSE st1

TradesSinceRetrain(st, fail_adaptive) ==
    IF AdaptiveRetrainDue(_trades_since_retrain + 1, st.history_len["slippage"])
          /\ fail_adaptive = "none"
    THEN 0 ELSE _trades_since_retrain + 1

\* the training sets of one add_trade_result call: add_observation trains on
\* the whole buffer, the adaptive retrain on the last 2 * min_samples_retrain
\* entries (`self._features_history[-self.min_samples_retrain * 2:]`)
TradeResultSamples(len, since) ==
    (IF RetrainDue(len) THEN <<len>> ELSE <<>>)
    \o (IF AdaptiveRetrainDue(since, len)
        THEN <<Min(len, 2 * min_samples_retrain)>> ELSE <<>>)

\* add_trade_result called directly on the adaptive estimator with
\* observations on which no training attempt raises
AdaptiveAddCleanTradeResult ==
    LET st1 == SlippageAddTradeResult(ModelState, "none", "none")
    IN /\ total_added["slippage"] < MaxAdaptiveTrades
       /\ total_added["maker_taker"] = 0
       /\ SetModelState(st1)
       /\ _trades_since_retrain' = TradesSinceRetrain(st1, "none")
       /\ last_trade_result' =
             [samples |-> TradeResultSamples(st1.history_len["slippage"],
                                             _trades_since_retrain + 1)]
       /\ UNCHANGED <<trade_count, trade_history_len, _recent_trades_len,
                      adapt_calls, trade_applied, trade_raised>>
       /\ UNCHANGED <<histVars, simMarketVars, wsVars, estVars, almgrenVars,
                      serviceVars>>

\* add_trade_result (lines 449-514): the trade is recorded, then the three
\* model updates run inside one try block
AddTradeResult(params, fail_s, fail_a, fail_m) ==
    /\ trade_count < MaxTrades
    /\ trade_count' = trade_count + 1
    /\ trade_history_len' = Min(trade_history_len + 1, max_trade_history)
    /\ IF current_orderbook = None
       THEN /\ trade_applied' = {}
            /\ trade_raised' = "none"
            /\ UNCHANGED <<_trades_since_retrain, _recent_trades_len, adapt_calls,
                           modelVars, almgrenVars>>
       ELSE LET st1 == SlippageAddTradeResult(ModelState, fail_s, fail_a)
            IN /\ _trades_since_retrain' = TradesSinceRetrain(st1, fail_a)
               /\ last_trade_result' =
                     [samples |-> TradeResultSamples(st1.history_len["slippage"],
                                                     _trades_since_retrain + 1)]
               /\ IF MakerTakerUpdateRaises(current_orderbook, params)
                  THEN /\ SetModelState(st1)
                       /\ trade_applied' = {"slippage"}
                       /\ trade_raised' = "maker_taker"
                       /\ UNCHANGED <<_recent_trades_len, adapt_calls, almgrenVars>>
                  ELSE /\ SetModelState(AddObservation(st1, "maker_taker", fail_m))
                       /\ \E o \in AdaptOutcomes : AlmgrenUpdate(o)
                       /\ trade_applied' = ModelUpdates
                       /\ trade_raised' = "none"
    /\ UNCHANGED <<histVars, simMarketVars, wsVars, estVars, serviceVars>>

\* the outcomes of a training attempt matter only on a call that makes one
AttemptOutcomes(kind, due) == IF due THEN Outcomes(kind) ELSE {"none"}

AddTradeResultAny ==
    \E params \in TradeParameterSets :
      \E fail_s \in AttemptOutcomes("slippage",
                      RetrainDue(AppendedLen(history_len["slippage"]))) :
        \E fail_a \in AttemptOutcomes("slippage",
                        AdaptiveRetrainDue(_trades_since_retrain + 1,
                                           AppendedLen(history_len["slippage"]))) :
          \E fail_m \in AttemptOutcomes("maker_taker",
                          RetrainDue(AppendedLen(history_len["maker_taker"]))) :
              AddTradeResult(params, fail_s, fail_a, fail_m)

-----------------------------------------------------------------------------
(* Initial states *)

HistInit ==
    /\ price_history = <<>>
    /\ timestamp_history = <<>>
    /\ spread_history = <<>>
    /\ volume_history = <<>>
    /\ an_price_log = <<>>
    /\ an_spread_log = <<>>
    /\ an_volume_log = <<>>

SimMarketInit ==
    /\ current_orderbook = None
    /\ sim_price_history = <<>>
    /\ sim_spread_history = <<>>
    /\ sim_volume_history = <<>>
    /\ sim_price_log = <<>>
    /\ sim_spread_log = <<>>
    /\ sim_volume_log = <<>>
    /\ upd_pc = "idle"
    /\ upd_ob = None
    /\ upd_gen = 0
    /\ ob_gen = 0
    /\ hist_gen = 0
    /\ sim_error_calls = 0

WsInit ==
    /\ _websocket = "None"
    /\ _is_connected = FALSE
    /\ _is_running = FALSE
    /\ _reconnect_count = 0
    /\ _message_count = 0
    /\ ws_pc = "idle"
    /\ connect_ctx = "start"
    /\ exit_reason = "none"
    /\ fatal_reported = FALSE
    /\ delays = <<>>
    /\ last_sleep = 0
    /\ received = 0
    /\ ob_received = 0
    /\ processor_updates = 0
    /\ callback_deliveries = 0
    /\ last_event = "init"
    /\ stop_in_backoff = FALSE

EstInit ==
    /\ est_pc = "idle"
    /\ est_ob = None
    /\ est_hist = <<>>
    /\ est_ob_gen = 0
    /\ est_hist_gen = 0
    /\ est_calls = 0
    /\ est_result = "none"
    /\ est_params = None
    /\ est_price = 0
    /\ est_predicts = {}
    /\ est_estimate = None
    /\ est_callback_calls = 0

TradeInit ==
    /\ trade_count = 0
    /\ trade_history_len = 0
    /\ _trades_since_retrain = 0
    /\ _recent_trades_len = 0
    /\ adapt_calls = 0
    /\ trade_applied = {}
    /\ trade_raised = "none"

ModelInit ==
    /\ history_len = [k \in Kinds |-> 0]
    /\ _features_history = [k \in Kinds |-> EmptyBuffer]
    /\ _outcomes_history = [k \in Kinds |-> EmptyBuffer]
    /\ total_added = [k \in Kinds |-> 0]
    /\ model = [k \in Kinds |-> Unfitted]
    /\ is_trained = [k \in Kinds |-> FALSE]
    /\ model_before = [k \in Kinds |-> [model |-> Unfitted, is_trained |-> FALSE]]
    /\ fits = [k \in Kinds |-> 0]
    /\ train_successes = [k \in Kinds |-> 0]
    /\ last_add = [kind |-> "none", retrain |-> FALSE, failed |-> FALSE]
    /\ last_trade_result = [samples |-> <<>>]

\* the AdaptiveAlmgrenChriss of a TradeSimulator
AlmgrenInit ==
    /\ current_params = SimulatorParams
    /\ initial_params = SimulatorParams
    /\ adaptation_rate = DefaultAdaptationRate
    /\ outcomes_added = 0
    /\ last_update = [adapted |-> FALSE, outcome |-> "none", before |-> SimulatorParams]
    /\ last_construct = [params |-> SimulatorParams, raised |-> FALSE]
    /\ strategy = None

\* the FeeCalculator of a TradeSimulator
FeeInit ==
    /\ fee_structure = SimulatorFeeStructure
    /\ daily_volume = 0
    /\ fee_rates = None

CallInit ==
    /\ train_call = None
    /\ predict_call = None

ProcInit ==
    /\ proc_result = None
    /\ impact_call = None

ApiInit ==
    /\ api_trade_count = 0
    /\ api_response = None

StatsInit == stats_result = "none"

ServiceInit == FeeInit /\ CallInit /\ ProcInit /\ ApiInit /\ StatsInit

Init ==
    /\ HistInit /\ SimMarketInit /\ WsInit /\ EstInit /\ TradeInit /\ ModelInit
    /\ AlmgrenInit /\ ServiceInit

-----------------------------------------------------------------------------
(* SpecHistory: the rolling histories *)

HistoryNext ==
    \/ AnalyzerUpdateAny
    \/ UpdSetOrderbookAny
    \/ UpdAppendPrice
    \/ UpdAppendVolume
    \/ UpdFinish

SpecHistory == Init /\ [][HistoryNext]_vars

-----------------------------------------------------------------------------
(* C1: every rolling history (mid price, spread, volume) of the analyzer    *)
(* and of the simulator has at most its configured capacity, and holds      *)
(* exactly the most recent values in arrival order (the oldest is evicted). *)
C1_RollingHistoryFifo ==
    /\ Len(price_history) <= max_history
    /\ Len(spread_history) <= max_history
    /\ Len(volume_history) <= max_history
    /\ price_history = LastN(an_price_log, max_history)
    /\ spread_history = LastN(an_spread_log, max_history)
    /\ volume_history = LastN(an_volume_log, max_history)
    /\ Len(sim_price_history) <= max_price_history
    /\ Len(sim_spread_history) <= max_price_history
    /\ Len(sim_volume_history) <= max_price_history
    /\ sim_price_history = LastN(sim_price_log, max_price_history)
    /\ sim_spread_history = LastN(sim_spread_log, max_price_history)
    /\ sim_volume_history = LastN(sim_volume_log, max_price_history)

\* both the analyzer and the simulator have overflowed: more values arrived
\* than the capacity, with different values evicted and kept
C1_Witness ==
    /\ Len(an_price_log) > max_history
    /\ Len(sim_price_log) > max_price_history
    /\ an_price_log[1] # an_price_log[Len(an_price_log)]
    /\ sim_volume_log[1] # sim_volume_log[Len(sim_volume_log)]
    /\ Len(price_history) = max_history
    /\ Len(sim_volume_history) = max_price_history

-----------------------------------------------------------------------------
(* SpecWS: the websocket client *)

WsNext ==
    \/ StartStreaming
    \/ StopStreaming
    \/ ConnectSucceeds
    \/ ConnectFailsAny
    \/ BackoffWake
    \/ ErrorSleepWake
    \/ ReceiveMessageAny
    \/ ReceiveAfterStop
    \/ ReadLoopEnds
    \/ ConnectionClosed
    \/ WebSocketErrorAny

SpecWS == Init /\ [][WsNext]_vars

-----------------------------------------------------------------------------
(* C2: start_streaming leaves its loop by giving up (a break while still    *)
(* running) only when the reconnect counter has reached                     *)
(* max_reconnect_attempts; a failed connect or reconnect with attempts      *)
(* remaining leads to another scheduled reconnect attempt.                  *)
C2_GiveUpOnlyAtMaxAttempts ==
    exit_reason = "gave_up" => _reconnect_count >= max_reconnect_attempts

-----------------------------------------------------------------------------
(* C3: with reconnect_delay 5 and cap 60 the delays slept before successive *)
(* reconnect attempts with no successful connect in between are             *)
(* 5,10,20,40,60,60,...; none exceeds the cap, and every sleep the client   *)
(* takes before it connects again is one of these delays.                   *)
ExpectedDelays == <<5, 10, 20, 40, 60, 60, 60, 60, 60, 60>>

C3_BackoffSequence ==
    /\ Len(delays) = _reconnect_count
    /\ Len(delays) <= Len(ExpectedDelays)
    /\ \A k \in 1..Len(delays) : delays[k] = ExpectedDelays[k] /\ delays[k] <= 60
    /\ last_sleep \in {0} \cup {ExpectedDelays[k] : k \in 1..Len(ExpectedDelays)}
    /\ ws_pc \in {"backoff", "error_sleep"} => last_sleep > 0

\* six reconnect attempts in a row failed: the client sleeps the capped delay
\* for the second time
C3_Witness ==
    /\ ws_pc = "backoff"
    /\ Len(delays) = 6
    /\ last_sleep = 60

-----------------------------------------------------------------------------
(* C4: while connected, every inbound message that decodes as JSON and      *)
(* carries bids and asks is passed to the orderbook processor, delivered    *)
(* exactly once to the orderbook callback, and counted by the message       *)
(* counter.                                                                 *)
C4_OrderbookMessagesDelivered ==
    /\ processor_updates = ob_received
    /\ callback_deliveries = ob_received
    /\ _message_count >= ob_received

-----------------------------------------------------------------------------
(* C5: an exception raised by a registered callback (the orderbook callback *)
(* or the error callback) while a message is handled neither ends the read  *)
(* loop nor changes the connection state.                                   *)
C5_CallbackErrorKeepsReading ==
    last_event = "msg_cb_raised" => (ws_pc = "reading" /\ IsConnected)

-----------------------------------------------------------------------------
(* C6: once stop_streaming ran during a pending backoff sleep, the client   *)
(* does not call connect() again, is_connected stays false and no websocket *)
(* is open, until start_streaming is called again.                          *)
C6_StopCancelsBackoff ==
    stop_in_backoff =>
        (ws_pc # "connecting" /\ ~IsConnected /\ _websocket # "open")

-----------------------------------------------------------------------------
(* SpecConc: the simulator's ingestion thread and a thread that estimates    *)

ConcNext ==
    \/ UpdSetOrderbookAny
    \/ UpdAppendPrice
    \/ UpdAppendVolume
    \/ UpdFinish
    \/ EstBeginAny
    \/ EstReadHistory
    \/ EstFinish

SpecConc == Init /\ [][ConcNext]_vars

-----------------------------------------------------------------------------
(* C7: an estimate_trade_cost call that runs concurrently with              *)
(* _handle_orderbook_update computes from a snapshot and histories of the   *)
(* same ingestion step.                                                     *)
C7_EstimateSeesConsistentPair ==
    est_pc = "compute" => est_ob_gen = est_hist_gen

-----------------------------------------------------------------------------
(* SpecTrades: the simulator ingesting snapshots and recording trade results *)

TradesNext ==
    \/ UpdSetOrderbookAny
    \/ UpdAppendPrice
    \/ UpdAppendVolume
    \/ UpdFinish
    \/ AddTradeResultAny

SpecTrades == Init /\ [][TradesNext]_vars

-----------------------------------------------------------------------------
(* C8: when one of the three model updates of add_trade_result raises, the  *)
(* other two are still applied for that trade result.                       *)
C8_ModelUpdatesIndependent ==
    trade_raised # "none" => (ModelUpdates \ {trade_raised}) \subseteq trade_applied

-----------------------------------------------------------------------------
(* SpecTrain: add_observation fed with observations of any content          *)

TrainNext ==
    \/ SlippageAddObservation
    \/ MakerTakerAddObservation

SpecTrain == Init /\ [][TrainNext]_vars

-----------------------------------------------------------------------------
(* C9: a retrain attempt that raises leaves the scaler, the point estimator *)
(* and the quantile regressors exactly as they were before the attempt, and *)
(* is_trained keeps its value.                                              *)
C9_FailedRetrainKeepsModel ==
    last_add.failed =>
        /\ model[last_add.kind] = model_before[last_add.kind].model
        /\ is_trained[last_add.kind] = model_before[last_add.kind].is_trained

-----------------------------------------------------------------------------
(* SpecCadence: add_observation fed past the capacity of the buffer         *)

CadenceNext ==
    \/ SlippageAddCleanObservation
    \/ MakerTakerAddCleanObservation

SpecCadence == Init /\ [][CadenceNext]_vars

-----------------------------------------------------------------------------
(* C10: add_observation attempts a retrain on a call exactly when the       *)
(* number of observations added so far is a positive multiple of 100, also  *)
(* after the buffer has reached its capacity of 10,000.                     *)
C10_RetrainEveryHundredth ==
    last_add.kind # "none" =>
        (last_add.retrain <=>
            (total_added[last_add.kind] > 0
             /\ total_added[last_add.kind] % RetrainEvery = 0))

-----------------------------------------------------------------------------
(* SpecAdaptive: AdaptiveSlippageEstimator.add_trade_result called directly *)

AdaptiveNext == AdaptiveAddCleanTradeResult

SpecAdaptive == Init /\ [][AdaptiveNext]_vars

-----------------------------------------------------------------------------
(* C11: add_trade_result without force_retrain retrains only on every 100th *)
(* accumulated observation, at most once per added observation, and on      *)
(* exactly the most recent 2 * min_samples_retrain buffered entries.        *)
C11_AdaptiveRetrainCadence ==
    LET samples == last_trade_result.samples
    IN /\ Len(samples) <= 1
       /\ Len(samples) >= 1 =>
             /\ total_added["slippage"] % RetrainEvery = 0
             /\ \A i \in 1..Len(samples) : samples[i] = 2 * min_samples_retrain

-----------------------------------------------------------------------------
(* SpecAlmgrenCadence: one AdaptiveAlmgrenChriss fed past its buffer size *)

AlmgrenCadenceNext == UpdateWithConstantPriceTrade(MaxCadenceOutcomes)

SpecAlmgrenCadence == Init /\ [][AlmgrenCadenceNext]_vars

\* C12: update_with_trade keeps at most the 100 most recent outcomes and
\* re-optimizes exactly on every 10th outcome added, the buffer full or not
C12_AdaptEveryTenth ==
    /\ _recent_trades_len = Min(outcomes_added, AlmgrenMaxHistory)
    /\ outcomes_added > 0 =>
          (last_update.adapted <=> outcomes_added % AdaptEvery = 0)

-----------------------------------------------------------------------------
(* SpecAlmgren: construction and adaptation of AdaptiveAlmgrenChriss *)

AlmgrenNext ==
    \/ NewAdaptiveAlmgrenChrissAny
    \/ UpdateWithTrade(MaxOutcomes)

SpecAlmgren == Init /\ [][AlmgrenNext]_vars

\* C13: when the optimization of an adaptation cycle reports failure, the
\* current parameters after the cycle equal those before it and are valid
C13_FailedOptimizationKeepsParams ==
    last_update.outcome = "failed" =>
        /\ current_params = last_update.before
        /\ current_params.sigma > 0 /\ current_params.gamma > 0
        /\ current_params.eta >= 0 /\ current_params.epsilon >= 0
        /\ current_params.tau > 0

\* C14: with adaptation_rate = 0 the current gamma, eta, epsilon, sigma and
\* tau equal the initial parameters after any number of update_with_trade calls
C14_ZeroRateKeepsParams ==
    adaptation_rate = 0 =>
        /\ current_params.gamma = initial_params.gamma
        /\ current_params.eta = initial_params.eta
        /\ current_params.epsilon = initial_params.epsilon
        /\ current_params.sigma = initial_params.sigma
        /\ current_params.tau = initial_params.tau

\* an adaptation at rate 0 whose optimization produced parameters that
\* differ from the current ones
C14_Witness ==
    /\ adaptation_rate = 0
    /\ last_update.adapted
    /\ last_update.outcome \in {"success", "failed"}
    /\ outcomes_added >= 2 * AdaptEvery
    /\ current_params.eta # OptimizeDefaults.eta

\* C15: constructing AlmgrenChrissParams with sigma <= 0, gamma <= 0, eta < 0,
\* epsilon < 0 or tau <= 0 fails, and after any update_with_trade calls the
\* parameters of AdaptiveAlmgrenChriss and of its model have sigma > 0,
\* gamma > 0, eta >= 0, epsilon >= 0 and tau > 0
C15_ParamsStayValid ==
    LET Invalid(p) == \/ p.sigma <= 0 \/ p.gamma <= 0 \/ p.eta < 0
                      \/ p.epsilon < 0 \/ p.tau <= 0
    IN /\ Invalid(last_construct.params) => last_construct.raised
       /\ ~Invalid(current_params)
       /\ ~Invalid(ModelParams)

\* a rejected construction, and an adaptation at a positive rate that moved
\* the parameters
C15_Witness ==
    /\ last_construct.raised
    /\ last_construct.params.eta < 0
    /\ adaptation_rate > 0
    /\ last_update.outcome = "success"
    /\ current_params # last_update.before

-----------------------------------------------------------------------------
(* SpecStrategy: calculate_optimal_strategy on validated parameters *)

StrategyNext ==
    \/ NewAdaptiveAlmgrenChrissAny
    \/ CalculateOptimalStrategyAny

SpecStrategy == Init /\ [][StrategyNext]_vars

\* C16: for validated parameters (eta = 0 included) and n_intervals >= 1,
\* calculate_optimal_strategy returns n_intervals + 1 holdings, the first
\* equal to initial_position and the last equal to 0
C16_StrategyEndpoints ==
    strategy # None =>
        /\ ~strategy.raised
        /\ strategy.n_holdings = strategy.n_intervals + 1
        /\ strategy.first = Float(strategy.initial_position)
        /\ strategy.last = Float(0)

-----------------------------------------------------------------------------
(* SpecEstimate: estimate_trade_cost next to ingestion and training *)

EstimateNext ==
    \/ EstimateSetOrderbook
    \/ UpdAppendPrice
    \/ UpdAppendVolume
    \/ UpdFinish
    \/ EstimateBegin
    \/ EstReadHistory
    \/ EstFinish
    \/ SlippageTrainModels
    \/ MakerTakerTrainModel

SpecEstimate == Init /\ [][EstimateNext]_vars

\* C17: the execution price is the best ask for a market buy, the best bid
\* for a market sell and the limit price for a limit order; with a
\* non-positive price the call ends without an estimate and without invoking
\* the cost-estimate callback
C17_ExecutionPriceResolution ==
    (est_calls > 0 /\ est_result # "no_orderbook") =>
        LET first_ask == IF est_ob.asks = <<>> THEN 0 ELSE est_ob.asks[1][1]
            first_bid == IF est_ob.bids = <<>> THEN 0 ELSE est_ob.bids[1][1]
            resolved == IF est_params.order_type = "limit" THEN est_params.limit_price
                        ELSE IF est_params.side = "buy" THEN first_ask ELSE first_bid
        IN /\ est_price = resolved
           /\ resolved <= 0 =>
                 /\ est_result = "invalid_price"
                 /\ est_pc = "idle"
                 /\ est_estimate = None
                 /\ est_callback_calls = 0

\* a market buy on a book without asks was refused
C17_Witness ==
    /\ est_result = "invalid_price"
    /\ est_params.order_type = "market"
    /\ est_params.side = "buy"
    /\ est_ob.asks = <<>>
    /\ est_ob.bids # <<>>

\* C18: an estimate has total_cost = exchange_fee + slippage_cost +
\* market_impact and cost_bps = total_cost / (trade_size * price) * 10000
C18_TotalIsSumOfComponents ==
    est_estimate # None =>
        /\ est_estimate.total_cost =
              est_estimate.exchange_fee + est_estimate.slippage_cost
              + est_estimate.market_impact
        /\ est_estimate.cost_bps =
              (est_estimate.total_cost * BpsPerMoney)
              \div (est_estimate.trade_params.trade_size * est_estimate.current_price)

\* an estimate built from three non-zero components
C18_Witness ==
    /\ est_estimate # None
    /\ est_estimate.exchange_fee > 0
    /\ est_estimate.slippage_cost > 0
    /\ est_estimate.market_impact > 0
    /\ est_estimate.cost_bps > 0

\* C19: on the snapshot 49990 x 2 / 50010 x 2 with untrained models a market
\* buy of size 1 gets an estimate with price 50010, slippage 10, maker
\* probability 0.1, total = taker rate * notional + 10 + impact and
\* cost_bps = total / notional * 10000
C19_EndToEnd ==
    ( /\ est_pc = "idle" /\ est_calls > 0 /\ est_result # "no_orderbook"
      /\ est_ob = EndToEndSnapshot
      /\ est_params.order_type = "market" /\ est_params.side = "buy"
      /\ \A kind \in Kinds : ~is_trained[kind] ) =>
        /\ est_result = "estimate"
        /\ est_estimate.current_price = 50010
        /\ est_estimate.slippage_cost = 10 * MoneyScale
        /\ est_estimate.maker_probability = 10
        /\ est_estimate.total_cost =
              TakerFeeRate * 50010 + 10 * MoneyScale + est_estimate.market_impact
        /\ est_estimate.cost_bps = (est_estimate.total_cost * BpsPerMoney) \div 50010

\* C20: an untrained slippage model gives half the spread with confidence
\* 0.5, an untrained maker/taker predictor gives maker probability 0.5, and
\* no predict method is invoked on an untrained model
C20_UntrainedFallbacks ==
    /\ \A kind \in est_predicts : is_trained[kind]
    /\ est_estimate # None =>
          /\ ~est_estimate.slippage_trained =>
                /\ est_estimate.slippage_cost * 2 =
                      (IF est_ob.asks # <<>> /\ est_ob.bids # <<>>
                       THEN est_ob.asks[1][1] - est_ob.bids[1][1] ELSE 0) * MoneyScale
                /\ est_estimate.slippage_confidence = 50
          /\ ~est_estimate.maker_taker_trained =>
                est_estimate.maker_probability = 50

\* an estimate computed with both models untrained on a book with a spread
C20_Witness ==
    /\ est_estimate # None
    /\ ~est_estimate.slippage_trained
    /\ ~est_estimate.maker_taker_trained
    /\ est_estimate.slippage_cost > 0
    /\ est_predicts = {}

-----------------------------------------------------------------------------
(* SpecFees: FeeCalculator.get_current_fee_rates next to the volume updates *)

FeesNext ==
    \/ NewFeeCalculatorAny
    \/ UpdateVolumeAny
    \/ ResetDailyVolume
    \/ GetCurrentFeeRatesAny

SpecFees == Init /\ [][FeesNext]_vars

\* C21: for a passed volume >= 0 (0 included), whatever daily_volume is,
\* get_current_fee_rates returns the rates of the highest tier whose minimum
\* does not exceed the volume, and the base rates when no tier applies
C21_RatesOfPassedVolume ==
    (fee_rates # None /\ fee_rates.current_volume # None) =>
        LET volume == fee_rates.current_volume.value
            applicable == {t \in fee_structure.volume_tiers : t.min_volume <= volume}
            highest == CHOOSE t \in applicable :
                           \A u \in applicable : u.min_volume <= t.min_volume
        IN fee_rates.rates =
              IF applicable = {}
              THEN <<fee_structure.maker_fee_rate, fee_structure.taker_fee_rate>>
              ELSE <<highest.maker, highest.taker>>

-----------------------------------------------------------------------------
(* SpecTraining: training and predict calls on both estimators *)

TrainingNext ==
    \/ TrainModelsAny
    \/ PredictAny

SpecTraining == Init /\ [][TrainingNext]_vars

\* C22: a training call with fewer than 10 samples or with lists of
\* different lengths raises and leaves is_trained, the fitted model and the
\* buffers as they were; predict on an estimator no training call has
\* completed on raises instead of returning a value
C22_RejectedTrainingChangesNothing ==
    /\ (train_call # None
        /\ (train_call.n_features < 10
            \/ train_call.n_features # train_call.n_outcomes)) =>
          /\ train_call.raised
          /\ EstimatorState(train_call.kind) = train_call.before
    /\ (predict_call # None /\ predict_call.train_successes = 0) =>
          predict_call.raised

\* a call with 9 samples was rejected on an estimator that an earlier,
\* failed attempt had partly fitted, and predict raised on it
C22_Witness ==
    /\ train_call # None
    /\ train_call.n_features = 9 /\ train_call.n_outcomes = 9
    /\ train_call.raised
    /\ fits[train_call.kind] > 0
    /\ predict_call # None
    /\ predict_call.kind = train_call.kind
    /\ predict_call.raised

-----------------------------------------------------------------------------
(* SpecProcessor: messages through OrderbookProcessor.process_message *)

ProcessorNext ==
    \/ ProcessMessageAny
    \/ CalculateImpactPriceAny

SpecProcessor == Init /\ [][ProcessorNext]_vars

StrictlyDescending(levels) ==
    \A i \in 1..(Len(levels) - 1) : levels[i][1] > levels[i + 1][1]

StrictlyAscending(levels) ==
    \A i \in 1..(Len(levels) - 1) : levels[i][1] < levels[i + 1][1]

\* C23: in every snapshot process_message returns the bids are strictly
\* descending and the asks strictly ascending by price, so no two levels
\* of a side have the same price
C23_SidesStrictlyOrdered ==
    (proc_result # None /\ proc_result.outcome = "snapshot") =>
        /\ StrictlyDescending(proc_result.snapshot.bids)
        /\ StrictlyAscending(proc_result.snapshot.asks)

\* the levels of a list that have two fields or more, both numeric
RECURSIVE WellFormedLevels(_)
WellFormedLevels(items) ==
    IF items = << >> THEN << >>
    ELSE LET level == Head(items)
         IN IF Len(level) >= 2 /\ level[1].numeric /\ level[2].numeric
            THEN << <<level[1].value, level[2].value>> >>
                     \o WellFormedLevels(Tail(items))
            ELSE WellFormedLevels(Tail(items))

SameLevels(a, b) ==
    /\ Len(a) = Len(b)
    /\ \A l \in {a[i] : i \in 1..Len(a)} \cup {b[i] : i \in 1..Len(b)} :
          Cardinality({i \in 1..Len(a) : a[i] = l})
             = Cardinality({i \in 1..Len(b) : b[i] = l})

HasMalformed(items) == Len(WellFormedLevels(items)) < Len(items)

\* C24: a message whose levels are lists with malformed levels among
\* well-formed ones still gives a snapshot, with exactly the well-formed
\* levels
C24_MalformedLevelsDropped ==
    (/\ proc_result # None
     /\ proc_result.message.json = "object"
     /\ proc_result.message.timestamp.kind \in {"missing", "iso8601"}
     /\ proc_result.message.bids.kind = "list"
     /\ proc_result.message.asks.kind = "list"
     /\ \/ HasMalformed(proc_result.message.bids.items)
        \/ HasMalformed(proc_result.message.asks.items)) =>
        /\ proc_result.outcome = "snapshot"
        /\ SameLevels(proc_result.snapshot.bids,
                      WellFormedLevels(proc_result.message.bids.items))
        /\ SameLevels(proc_result.snapshot.asks,
                      WellFormedLevels(proc_result.message.asks.items))

\* C27: process_message returns a snapshot or the absent result for every
\* message, never an exception, and the rolling histories of the analyzer
\* are as before when it returns absent
C27_NeverPropagates ==
    proc_result # None =>
        /\ proc_result.outcome \in {"snapshot", "absent"}
        /\ proc_result.outcome = "absent" => AnalyzerHistories = proc_result.before

\* the quantity a fill of `quantity` in price priority takes from level i
FillAt(levels, quantity, i) ==
    LET before == SumQty(SubSeq(levels, 1, i - 1))
    IN IF quantity <= before THEN 0 ELSE Min(levels[i][2], quantity - before)

RECURSIVE FillCost(_, _, _)
\* the cost of that fill over the first n levels
FillCost(levels, quantity, n) ==
    IF n = 0 THEN 0
    ELSE FillCost(levels, quantity, n - 1) + FillAt(levels, quantity, n) * levels[n][1]

LowestPrice(levels) == Min(levels[1][1], levels[Len(levels)][1])
HighestPrice(levels) ==
    IF levels[1][1] >= levels[Len(levels)][1] THEN levels[1][1]
    ELSE levels[Len(levels)][1]

\* absent when the quantity exceeds the side walked, else the
\* volume-weighted price of the fill in price priority
ImpactPriceIsFillPrice ==
    IF impact_call.quantity > SumQty(impact_call.levels)
    THEN impact_call.result = None
    ELSE /\ impact_call.result # None
         /\ impact_call.result.quantity = impact_call.quantity
         /\ impact_call.result.total_cost =
               FillCost(impact_call.levels, impact_call.quantity,
                        Len(impact_call.levels))

\* C25 as stated: the price returned lies strictly between the best and
\* the worst level price of the side walked
C25_StrictlyBetweenBestAndWorst ==
    impact_call # None =>
        /\ ImpactPriceIsFillPrice
        /\ impact_call.result # None =>
              /\ LowestPrice(impact_call.levels) * impact_call.quantity
                    < impact_call.result.total_cost
              /\ impact_call.result.total_cost
                    < HighestPrice(impact_call.levels) * impact_call.quantity

\* C25 amended: calculate_impact_price returns absent whenever the quantity
\* exceeds the total quantity of the side walked, and otherwise the
\* volume-weighted price of the fill in price priority, which lies between
\* the best and the worst level price of that side, the two included
C25_BetweenBestAndWorst ==
    impact_call # None =>
        /\ ImpactPriceIsFillPrice
        /\ impact_call.result # None =>
              /\ LowestPrice(impact_call.levels) * impact_call.quantity
                    <= impact_call.result.total_cost
              /\ impact_call.result.total_cost
                    <= HighestPrice(impact_call.levels) * impact_call.quantity

\* a fill that takes from two levels of different prices
C25_Witness ==
    /\ impact_call # None
    /\ Len(impact_call.levels) >= 2
    /\ impact_call.levels[1][1] # impact_call.levels[2][1]
    /\ impact_call.quantity > impact_call.levels[1][2]
    /\ impact_call.result # None

-----------------------------------------------------------------------------
(* SpecApi: requests to POST /api/estimate *)

ApiNext ==
    \/ ApiEstimateTradeCostAny

SpecApi == Init /\ [][ApiNext]_vars

Abs(x) == IF x < 0 THEN 0 - x ELSE x

\* is_close(actual, expected) of the test with its tolerance of 1%;
\* `floor` is the test's 0.01 in the unit of the two values
IsClose(actual, expected, floor) ==
    Abs(actual - expected) * 100 <= (IF expected >= floor THEN expected ELSE floor)

\* C26: the exchange_fee returned is the notional times 0.0002 for a limit
\* order and times 0.0005 otherwise, the total_cost returned is the sum of the
\* three components returned, and the cost_bps returned is the total_cost
\* returned over the notional times 10000, each within 1%
C26_BreakdownConsistent ==
    api_response # None =>
        LET request == api_response.request
            returned == api_response.cost_breakdown
            notional == request.trade_size * api_response.current_price
        IN /\ IsClose(returned.exchange_fee * Cent,
                      notional * (IF request.order_type = "limit" THEN 20 ELSE 50),
                      Cent)
           /\ IsClose(returned.total_cost,
                      returned.exchange_fee + returned.slippage_cost
                         + returned.market_impact, 1)
           /\ IsClose(returned.cost_bps * notional,
                      returned.total_cost * 1000000, notional)

\* trade_size > 0, time_horizon > 0, a market order or a limit order with a
\* positive limit price
ContractRequest(params) ==
    /\ params.trade_size > 0
    /\ params.time_horizon > 0
    /\ \/ params.order_type = "market"
       \/ params.order_type = "limit" /\ params.limit_price > 0

\* C28: a call of estimate_trade_cost with a request of the contract and a
\* snapshot with both sides populated gives an estimate (the one built at
\* lines 407-422), also for a time horizon under 10 seconds
C28_ContractRequestEstimated ==
    ( /\ est_pc = "idle" /\ est_calls > 0 /\ est_result # "no_orderbook"
      /\ ContractRequest(est_params)
      /\ est_ob.bids # << >> /\ est_ob.asks # << >> ) =>
        est_estimate # None

\* C29: the feature buffer and the outcome (label) buffer of each estimator
\* have the same length, at most 10,000, hold the entries of the same
\* add_observation calls at the same positions, and these are the latest
\* calls: eviction drops the oldest pair first
C29_BuffersPaired ==
    \A kind \in Kinds :
        /\ BufferLen(_features_history[kind]) = BufferLen(_outcomes_history[kind])
        /\ BufferLen(_features_history[kind]) <= 10000
        /\ _features_history[kind] = _outcomes_history[kind]
        /\ total_added[kind] > 0 =>
              _features_history[kind].last = total_added[kind]

\* an estimator that was fed more than 10,000 observations: pairs were evicted
C29_Witness ==
    \E kind \in Kinds :
        /\ total_added[kind] > 10000
        /\ BufferLen(_features_history[kind]) = 10000
        /\ _features_history[kind].first > 1

-----------------------------------------------------------------------------
(* SpecReadOnly: estimate_trade_cost and get_statistics next to the
   ingestion of snapshots and the training of the estimators *)

\* _handle_orderbook_update entered with one of the snapshots
ReadOnlySetOrderbook ==
    /\ upd_gen < MaxReadOnlyUpdates
    /\ \E ob \in EstimateSnapshots : UpdSetOrderbook(ob)

ReadOnlyNext ==
    \/ ReadOnlySetOrderbook
    \/ UpdAppendPrice
    \/ UpdAppendVolume
    \/ UpdFinish
    \/ EstimateBegin
    \/ EstReadHistory
    \/ EstFinish
    \/ SlippageTrainModels
    \/ MakerTakerTrainModel
    \/ GetStatistics

SpecReadOnly == Init /\ [][ReadOnlyNext]_vars

\* the current snapshot, the rolling histories, the trade history and count,
\* the training buffers, the trained flags and the execution-model parameters
SharedState ==
    <<current_orderbook, sim_price_history, sim_spread_history, sim_volume_history,
      trade_count, trade_history_len, _features_history, _outcomes_history,
      history_len, is_trained, current_params>>

\* a step of estimate_trade_cost or of get_statistics
ReadOnlyCallStep ==
    \/ est_pc' # est_pc
    \/ est_calls' # est_calls
    \/ stats_result' # stats_result

\* C30: no step of estimate_trade_cost or of get_statistics, whether the
\* call returns a value or fails, changes the current snapshot, the rolling
\* histories, the trade history and count, the training buffers, the trained
\* flags or the execution-model parameters
C30_EstimateAndStatisticsReadOnly ==
    [][ReadOnlyCallStep => SharedState' = SharedState]_vars

\* an estimate call and a get_statistics call have ended while a snapshot
\* was set, the price history was not empty and an estimator was trained
C30_Witness ==
    /\ est_calls > 0 /\ est_pc = "idle" /\ est_result = "error"
    /\ stats_result # "none"
    /\ current_orderbook # None
    /\ sim_price_history # << >>
    /\ \E kind \in Kinds : is_trained[kind]

=============================================================================
